---- MODULE Spec2Model ----
(***************************************************************************)
(* A model of the BSV wallet MCP server: the transaction builder           *)
(* (src/src/bsv/transaction-builder.ts), the X402 payment payload codec    *)
(* (src/src/x402/payment-creator.ts), the WhatsOnChain network client with *)
(* its retry loop and the two tool handlers that drive them                *)
(* (src/src/tools/send-transaction.ts, src/unnamed/part_007), the vault    *)
(* that encrypts the wallet's private key (src/unnamed/part_004), the      *)
(* wallet record store and the wallet manager (src/src/wallet/storage.ts,  *)
(* src/src/wallet/manager.ts), the local transaction history               *)
(* (src/unnamed/part_008) and the answers of the MCP tool handlers.        *)
(*                                                                         *)
(* Eight specifications share the variables:                               *)
(*   SpecBuilder  selectUTXOs / buildTransaction / getTransactionInfo      *)
(*   SpecCodec    createPaymentPayloadFromHex / extractTransactionFrom...  *)
(*   SpecNet      one NetworkClient operation, attempt by attempt          *)
(*   SpecFlow     the tool handlers send_transaction, create_x402_payment  *)
(*                and buildTransactionComplete                             *)
(*   SpecVault    encryptWif / decryptWif, with scrypt and AES-GCM as      *)
(*                ideal primitives                                         *)
(*   SpecStore    one operation of the store or the manager on the record  *)
(*                files, saveWallet step by step, and a reader beside it   *)
(*   SpecLog      two callers of logTransaction for the same wallet        *)
(*   SpecTools    one call of a tool handler, its try and catch blocks     *)
(***************************************************************************)
EXTENDS Integers, Sequences, FiniteSets, TLC

VARIABLES
    \* ---- transaction builder ----
    utxos,        \* the UTXO list: BuildTxParams.utxos, or a handler's local `utxos`
    amount,       \* BuildTxParams.amount (satoshis)
    feeRate,      \* BuildTxParams.feeRate, a rational [num, den] (sat/byte)
    bpc,          \* position of the builder caller
    selected,     \* result of selectUTXOs (the local `selected`), or NoValue
    tx,           \* the Transaction returned by buildTransaction, or NoValue
    buildError,   \* the Error thrown by buildTransaction, or NoValue
    txInfo,       \* result of getTransactionInfo(tx), or NoValue
    \* ---- payment payload codec ----
    txHex,        \* the hex text handed to createPaymentPayloadFromHex
    network,      \* wallet network tag: "mainnet" | "testnet"
    accessibility,\* optional AccessibilityPreferences, or NoValue
    cpc,          \* position of the codec caller
    payloadBase64,\* the envelope text: made by the encoder, or received
    extracted,    \* what extractTransactionFromPayload returned / threw
    received,     \* what a payload that came from outside was made from, or NoValue
    parsedPayload,\* what parsePaymentPayload returned / threw, or NoValue
    validation,   \* what validatePaymentPayload returned, or NoValue
    \* ---- network client ----
    netOp,        \* the NetworkClient method being executed, or "none"
    netArg,       \* its argument (address, txid or transaction hex)
    netState,     \* "idle" | "running" | "done"
    attempt,      \* the loop variable `attempt`
    history,      \* responses received so far in this call, oldest first
    sleeps,       \* delays passed to sleep() so far in this call (ms)
    netResult,    \* what the call returned or threw, once done
    \* ---- tool handlers ----
    tool,         \* which entry point runs
    fpc,          \* position inside the handler
    args,         \* the handler's arguments
    wallet,       \* the unlocked wallet, or NoValue
    fetched,      \* utxosWithSource being built by fetchSourceTransactions
    broadcastCalls, \* number of calls made to networkClient.broadcastTransaction
    broadcastResult,\* the local `broadcastResult`, or NoValue
    response,     \* the structured response returned by the handler, or NoValue
    \* ---- secret vault ----
    vpc,          \* position of the vault caller
    secret,       \* the WIF handed to encryptWif
    passphrase,   \* the password handed to encryptWif
    sealed,       \* what encryptWif returned / threw, or NoValue
    block,        \* the EncryptedData record as it is kept, or NoValue
    decryptPass,  \* the password handed to decryptWif, or NoValue
    opened,       \* what decryptWif returned / threw, or NoValue
    kdfCalls,     \* the scrypt invocations made so far: [N, r, p, keyLen] each
    cycles,       \* encrypt/decrypt cycles completed
    \* ---- wallet record store and wallet manager ----
    sop,          \* the operation that runs: its name and arguments
    spc,          \* position inside the operation
    dirMode,      \* the wallets directory: [mode |-> its mode], or NoValue when absent
    files,        \* the record file of each wallet id: [mode, text], or NoValue
    original,     \* the record files as they were when the operation began
    pending,      \* the WalletData object handed to saveWallet, or NoValue
    decryptCalls, \* the encrypted blocks handed to decryptWif, oldest first
    sresult,      \* what the operation returned / threw, or NoValue
    observed,     \* what a reader running beside the operation got, or NoValue
    warnings,     \* the warnings written by console.error, oldest first
    \* ---- local transaction history ----
    logDir,       \* the transactions directory: [mode |-> its mode], or NoValue
    logFile,      \* the log file of the wallet: [mode, text], or NoValue
    lrec,         \* the record each caller of logTransaction hands over
    lpc,          \* position of each caller inside logTransaction
    lmem,         \* the TransactionLog object each caller holds, or NoValue
    \* ---- MCP tool handlers ----
    tcall,        \* the tool called, its arguments and what its dependencies do
    tpc,          \* position of the tool call
    tthrown,      \* what was thrown inside the handler's try block, or NoValue
    toutcome      \* what the handler returned / threw, or NoValue

builderVars == <<utxos, amount, feeRate, bpc, selected, tx, buildError, txInfo>>
codecVars   == <<txHex, network, accessibility, cpc, payloadBase64, extracted,
                 received, parsedPayload, validation>>
netVars     == <<netOp, netArg, netState, attempt, history, sleeps, netResult>>
flowVars    == <<tool, fpc, args, wallet, fetched, broadcastCalls, broadcastResult, response>>
vaultVars   == <<vpc, secret, passphrase, sealed, block, decryptPass, opened, kdfCalls,
                 cycles>>
storeVars   == <<sop, spc, dirMode, files, original, pending, decryptCalls, sresult,
                 observed, warnings>>
logVars     == <<logDir, logFile, lrec, lpc, lmem>>
toolVars    == <<tcall, tpc, tthrown, toutcome>>
walletVars  == <<storeVars, logVars, toolVars>>
vars        == <<builderVars, codecVars, netVars, flowVars, vaultVars, walletVars>>

NoValue == [none |-> TRUE]

(***************************************************************************)
(* Bounds of the model.                                                    *)
(***************************************************************************)
MaxUtxos  == 3      \* longest list of available outputs
MaxHexLen == 3      \* longest transaction hex text

(***************************************************************************)
(* Helpers.                                                                *)
(***************************************************************************)
Min(a, b) == IF a <= b THEN a ELSE b

\* Math.ceil(n / d) for an integer n and d > 0
Ceil(n, d) == -((-n) \div d)

RECURSIVE Pow2(_)
Pow2(k) == IF k <= 0 THEN 1 ELSE 2 * Pow2(k - 1)

RECURSIVE SumSeq(_)
SumSeq(s) == IF s = <<>> THEN 0 ELSE Head(s) + SumSeq(Tail(s))

SeqsUpTo(S, n) == UNION {[1..k -> S] : k \in 0..n}

(***************************************************************************)
(* Transaction builder: src/src/bsv/transaction-builder.ts                 *)
(***************************************************************************)
headerSize == 10
inputSize  == 148
outputSize == 34

\* estimateFee with numOutputs forgotten (a mutant)
estimateFeeNoOutputs(numInputs, numOutputs, rate) ==
    Ceil((headerSize + numInputs * inputSize) * rate.num, rate.den)

\* Math.ceil(estimatedSize * feeRate), feeRate = rate.num / rate.den
estimateFee(numInputs, numOutputs, rate) ==
    LET estimatedSize == headerSize + numInputs * inputSize + numOutputs * outputSize
    IN  Ceil(estimatedSize * rate.num, rate.den)

\* insertion of u into a list already sorted by value descending, after
\* every element that does not compare greater (Array.prototype.sort is stable)
RECURSIVE InsertDesc(_, _)
InsertDesc(u, s) ==
    IF s = <<>> THEN <<u>>
    ELSE IF Head(s).value >= u.value THEN <<Head(s)>> \o InsertDesc(u, Tail(s))
    ELSE <<u>> \o s

\* the list left in the order the caller gave it (a mutant)
SortDescOmitted(s) == s

\* Array.prototype.sort((a, b) => b.value - a.value)
RECURSIVE SortDesc(_)
SortDesc(s) ==
    IF s = <<>> THEN <<>>
    ELSE InsertDesc(s[Len(s)], SortDesc(SubSeq(s, 1, Len(s) - 1)))

\* [...utxos].sort(...): the spread makes a new array, which sort orders in
\* place and returns; the array behind the parameter is not written
sortedCopy(us) == [argument |-> us, sortedUTXOs |-> SortDesc(us)]

\* the for-loop of selectUTXOs comparing the accumulated value with the
\* amount alone, the fee left out of the comparison (a mutant)
RECURSIVE selectLoopAmountOnly(_, _, _, _, _, _)
selectLoopAmountOnly(sortedUTXOs, i, selectedUTXOs, totalValue, amt, rate) ==
    IF i > Len(sortedUTXOs)
    THEN [ok |-> FALSE, error |-> "Fondos insuficientes",
          minRequired |-> amt + estimateFee(Len(selectedUTXOs), 2, rate),
          available |-> totalValue]
    ELSE LET sel == Append(selectedUTXOs, sortedUTXOs[i])
             tot == totalValue + sortedUTXOs[i].value
             estimatedFee == estimateFee(Len(sel), 2, rate)
         IN  IF tot >= amt
             THEN [ok |-> TRUE, utxos |-> sel, totalValue |-> tot,
                   change |-> tot - amt - estimatedFee, fee |-> estimatedFee]
             ELSE selectLoopAmountOnly(sortedUTXOs, i + 1, sel, tot, amt, rate)

\* the for-loop of selectUTXOs, entered at sortedUTXOs[i] with the
\* accumulators selectedUTXOs and totalValue
RECURSIVE selectLoop(_, _, _, _, _, _)
selectLoop(sortedUTXOs, i, selectedUTXOs, totalValue, amt, rate) ==
    IF i > Len(sortedUTXOs)
    THEN [ok |-> FALSE, error |-> "Fondos insuficientes",
          minRequired |-> amt + estimateFee(Len(selectedUTXOs), 2, rate),
          available |-> totalValue]
    ELSE LET sel == Append(selectedUTXOs, sortedUTXOs[i])
             tot == totalValue + sortedUTXOs[i].value
             estimatedFee == estimateFee(Len(sel), 2, rate)
         IN  IF tot >= amt + estimatedFee
             THEN [ok |-> TRUE, utxos |-> sel, totalValue |-> tot,
                   change |-> tot - amt - estimatedFee, fee |-> estimatedFee]
             ELSE selectLoop(sortedUTXOs, i + 1, sel, tot, amt, rate)

selectUTXOs(us, amt, rate) ==
    IF Len(us) = 0
    THEN [ok |-> FALSE, error |-> "No hay UTXOs disponibles"]
    ELSE selectLoop(sortedCopy(us).sortedUTXOs, 1, <<>>, 0, amt, rate)

\* the caller's array once selectUTXOs has returned or thrown
argumentAfterSelect(us) ==
    IF Len(us) = 0 THEN us ELSE sortedCopy(us).argument

\* the outputs of buildTransaction with the change test relaxed to >= 0 (a mutant)
txOutputsZeroChange(payTo, amt, changeAddr, sel) ==
    <<[to |-> payTo, satoshis |-> amt]>>
        \o (IF sel.change >= 0
            THEN <<[to |-> changeAddr, satoshis |-> sel.change]>> ELSE <<>>)

\* tx.addOutput(pay) and, if selected.change > 0, tx.addOutput(change)
txOutputs(payTo, amt, changeAddr, sel) ==
    <<[to |-> payTo, satoshis |-> amt]>>
        \o (IF sel.change > 0
            THEN <<[to |-> changeAddr, satoshis |-> sel.change]>> ELSE <<>>)

\* one tx.addInput per selected UTXO; sourceSatoshis is the value of output
\* sourceOutputIndex of the parsed sourceTransaction
txInputs(sel) ==
    [k \in 1..Len(sel.utxos) |->
        [txid |-> sel.utxos[k].txid, sourceOutputIndex |-> sel.utxos[k].vout,
         sourceSatoshis |-> sel.utxos[k].sourceSatoshis, sequence |-> "0xffffffff"]]

\* changeAddress || own address of the private key
changeAddrOf(changeAddress) ==
    IF changeAddress = NoValue THEN "own-address" ELSE changeAddress

buildTransaction(params) ==
    IF params.amount <= 0
    THEN [ok |-> FALSE, selected |-> NoValue,
          error |-> <<"Error al construir transaccion", "El monto debe ser mayor a 0">>]
    ELSE IF Len(params.utxos) = 0
    THEN [ok |-> FALSE, selected |-> NoValue,
          error |-> <<"Error al construir transaccion", "No hay UTXOs disponibles">>]
    ELSE LET sel == selectUTXOs(params.utxos, params.amount, params.feeRate)
         IN  IF ~sel.ok
             THEN [ok |-> FALSE, selected |-> sel,
                   error |-> <<"Error al construir transaccion", sel.error>>]
             ELSE [ok |-> TRUE, selected |-> sel,
                   tx |-> [inputs  |-> txInputs(sel),
                           outputs |-> txOutputs(params.payToAddress, params.amount,
                                                 changeAddrOf(params.changeAddress), sel),
                           signed  |-> TRUE]]

\* totalInput / totalOutput of getTransactionInfo: a falsy satoshis adds nothing
truthySatoshis(n) == IF n # 0 THEN n ELSE 0

getTransactionInfo(t) ==
    LET totalInput  == SumSeq([k \in 1..Len(t.inputs) |->
                                  truthySatoshis(t.inputs[k].sourceSatoshis)])
        totalOutput == SumSeq([k \in 1..Len(t.outputs) |->
                                  truthySatoshis(t.outputs[k].satoshis)])
    IN  [inputs |-> Len(t.inputs), outputs |-> Len(t.outputs),
         fee |-> totalInput - totalOutput]

(***************************************************************************)
(* Inputs of the builder.                                                  *)
(***************************************************************************)
UtxoValues == {100, 300, 500}
Amounts    == {0, 1, 250, 387, 413, 2000, 40000}
FeeRates   == {[num |-> -1, den |-> 1], [num |-> 0, den |-> 1],
               [num |-> 1, den |-> 2], [num |-> 1, den |-> 1]}

\* the UTXOs of an address as the indexer lists them, each joined with its
\* source transaction: the value listed is the value of the output it names
MakeUtxos(values) ==
    [k \in 1..Len(values) |->
        [txid |-> k, vout |-> 0, value |-> values[k], sourceSatoshis |-> values[k]]]

\* the outputs of an address holding 50000, 30000 and 20000 satoshis
LargeOutputs == <<50000, 30000, 20000>>

UtxoLists == {MakeUtxos(vs) : vs \in SeqsUpTo(UtxoValues, MaxUtxos)}
                 \cup {MakeUtxos(LargeOutputs)}

builderParams ==
    [utxos |-> utxos, amount |-> amount, feeRate |-> feeRate,
     payToAddress |-> "payTo", changeAddress |-> NoValue]

codecIdle == /\ txHex = <<>> /\ network = "mainnet" /\ accessibility = NoValue
             /\ cpc = "off" /\ payloadBase64 = NoValue /\ extracted = NoValue
             /\ received = NoValue /\ parsedPayload = NoValue /\ validation = NoValue
netIdle   == /\ netOp = "none" /\ netArg = NoValue /\ netState = "idle" /\ attempt = 0
             /\ history = <<>> /\ sleeps = <<>> /\ netResult = NoValue
flowIdle  == /\ tool = "none" /\ fpc = "off" /\ args = NoValue /\ wallet = NoValue
             /\ fetched = <<>>
             /\ broadcastCalls = 0 /\ broadcastResult = NoValue /\ response = NoValue
storeIdle == /\ sop = NoValue /\ spc = "off" /\ dirMode = NoValue /\ files = NoValue
             /\ original = NoValue /\ pending = NoValue /\ decryptCalls = <<>>
             /\ sresult = NoValue /\ observed = NoValue /\ warnings = <<>>
logIdle   == /\ logDir = NoValue /\ logFile = NoValue /\ lrec = NoValue
             /\ lpc = NoValue /\ lmem = NoValue
toolIdle  == tcall = NoValue /\ tpc = "off" /\ tthrown = NoValue /\ toutcome = NoValue
walletIdle == storeIdle /\ logIdle /\ toolIdle
vaultIdle == /\ vpc = "off" /\ secret = <<>> /\ passphrase = <<>> /\ sealed = NoValue
             /\ block = NoValue /\ decryptPass = NoValue /\ opened = NoValue
             /\ kdfCalls = <<>> /\ cycles = 0
builderIdle == /\ utxos = <<>> /\ amount = 0 /\ feeRate = [num |-> 1, den |-> 2]
               /\ bpc = "off" /\ selected = NoValue /\ tx = NoValue
               /\ buildError = NoValue /\ txInfo = NoValue

InitBuilder ==
    /\ utxos \in UtxoLists
    /\ amount \in Amounts
    /\ feeRate \in FeeRates
    /\ bpc = "start"
    /\ selected = NoValue /\ tx = NoValue /\ buildError = NoValue /\ txInfo = NoValue
    /\ codecIdle /\ netIdle /\ flowIdle /\ vaultIdle /\ walletIdle

\* a direct call of the exported selectUTXOs
CallSelectUTXOs ==
    /\ bpc = "start"
    /\ selected' = selectUTXOs(utxos, amount, feeRate)
    /\ utxos' = argumentAfterSelect(utxos)
    /\ bpc' = "selected"
    /\ UNCHANGED <<amount, feeRate, tx, buildError, txInfo>>
    /\ UNCHANGED <<codecVars, netVars, flowVars, vaultVars, walletVars>>

CallBuildTransaction ==
    /\ bpc = "start"
    /\ LET r == buildTransaction(builderParams)
       IN  /\ selected' = r.selected
           /\ tx' = IF r.ok THEN r.tx ELSE NoValue
           /\ buildError' = IF r.ok THEN NoValue ELSE r.error
           /\ bpc' = IF r.ok THEN "built" ELSE "failed"
    /\ utxos' = IF builderParams.amount <= 0 THEN utxos ELSE argumentAfterSelect(utxos)
    /\ UNCHANGED <<amount, feeRate, txInfo>>
    /\ UNCHANGED <<codecVars, netVars, flowVars, vaultVars, walletVars>>

CallGetTransactionInfo ==
    /\ bpc = "built"
    /\ txInfo' = getTransactionInfo(tx)
    /\ bpc' = "info"
    /\ UNCHANGED <<utxos, amount, feeRate, selected, tx, buildError>>
    /\ UNCHANGED <<codecVars, netVars, flowVars, vaultVars, walletVars>>

NextBuilder == CallSelectUTXOs \/ CallBuildTransaction \/ CallGetTransactionInfo

SpecBuilder == InitBuilder /\ [][NextBuilder]_vars

(***************************************************************************)
(* Claims about the transaction builder (checked under SpecBuilder).       *)
(***************************************************************************)
RatePositive(rate) == rate.num > 0 /\ rate.den > 0

\* f = ceil(size * rate), stated without estimateFee
IsCeilOf(f, size, rate) ==
    /\ f * rate.den >= size * rate.num
    /\ (f - 1) * rate.den < size * rate.num

SelectionValues(sel) == [k \in 1..Len(sel.utxos) |-> sel.utxos[k].value]

\* C1: for a non-empty list of outputs, an amount > 0 and a fee rate > 0,
\* a selection returned by selectUTXOs has totalValue = the sum of the
\* selected values, fee = ceil((10 + 148 n + 34 * 2) * feeRate) for its n
\* outputs, totalValue >= amount + fee and change = totalValue - amount - fee >= 0.
C1_SelectionCoversAmountAndFee ==
    (/\ bpc \in {"selected", "built", "info"}
     /\ Len(utxos) > 0 /\ amount > 0 /\ RatePositive(feeRate)
     /\ selected # NoValue /\ selected.ok)
    => /\ selected.totalValue = SumSeq(SelectionValues(selected))
       /\ IsCeilOf(selected.fee, 10 + 148 * Len(selected.utxos) + 34 * 2, feeRate)
       /\ selected.totalValue >= amount + selected.fee
       /\ selected.change = selected.totalValue - amount - selected.fee
       /\ selected.change >= 0

\* C1 witness: a direct selectUTXOs call returned a selection of two outputs
\* under a fractional fee rate, with change left over
C1_Witness ==
    /\ bpc = "selected" /\ selected.ok
    /\ amount > 0 /\ feeRate = [num |-> 1, den |-> 2]
    /\ Len(selected.utxos) = 2 /\ selected.change > 0 /\ selected.fee = 187

TxInputTotal(t)  == SumSeq([k \in 1..Len(t.inputs) |-> t.inputs[k].sourceSatoshis])
TxOutputTotal(t) == SumSeq([k \in 1..Len(t.outputs) |-> t.outputs[k].satoshis])

\* C2: every transaction returned by buildTransaction has
\* sum(inputs) = sum(outputs) + fee with fee >= 0, fee being the fee
\* getTransactionInfo reports, equal to the fee of the selection.
C2_FeeBalanceNonNegative ==
    bpc = "info"
    => /\ TxInputTotal(tx) = TxOutputTotal(tx) + txInfo.fee
       /\ txInfo.fee >= 0
       /\ txInfo.fee = selected.fee

\* C3: the built transaction has exactly one destination output of the
\* requested amount, plus a change output iff the computed change is > 0,
\* whose value is that change; so 1 or 2 outputs, none of value 0, and one
\* input per selected output.
C3_OutputsOfBuiltTransaction ==
    bpc \in {"built", "info"}
    => /\ Len(tx.outputs) \in {1, 2}
       /\ tx.outputs[1] = [to |-> "payTo", satoshis |-> amount]
       /\ (Len(tx.outputs) = 2) <=> (selected.change > 0)
       /\ Len(tx.outputs) = 2
            => tx.outputs[2] = [to |-> "own-address", satoshis |-> selected.change]
       /\ \A k \in 1..Len(tx.outputs) : tx.outputs[k].satoshis # 0
       /\ Len(tx.inputs) = Len(selected.utxos)
       /\ \A k \in 1..Len(tx.inputs) :
            /\ tx.inputs[k].txid = selected.utxos[k].txid
            /\ tx.inputs[k].sourceOutputIndex = selected.utxos[k].vout

\* C3 witness: a transaction built from two inputs whose change is exactly 0,
\* so that the change output is omitted
C3_Witness ==
    /\ bpc = "built" /\ selected.change = 0
    /\ Len(tx.inputs) = 2 /\ Len(tx.outputs) = 1

\* a second case of C3: a change output was emitted
C3_WitnessChange ==
    /\ bpc = "built" /\ selected.change > 0 /\ Len(tx.outputs) = 2

SelectedIds(sel) == {sel.utxos[k].txid : k \in 1..Len(sel.utxos)}

\* what C12 says of a returned selection, apart from its last clause: the
\* selection is made of distinct available outputs in descending order of
\* value, every selected output is worth at least as much as every unselected
\* one, the outputs 50000, 30000, 20000 with amount 40000 at 0.5 sat/byte give
\* the selection [50000], and the caller's list is as it was given
LargestFirstPrefix ==
    /\ (selected # NoValue /\ selected.ok)
       => /\ Len(selected.utxos) >= 1
          /\ Cardinality(SelectedIds(selected)) = Len(selected.utxos)
          /\ \A k \in 1..Len(selected.utxos) :
                \E j \in 1..Len(utxos) : utxos[j] = selected.utxos[k]
          /\ \A k \in 1..(Len(selected.utxos) - 1) :
                selected.utxos[k].value >= selected.utxos[k + 1].value
          /\ \A j \in 1..Len(utxos) :
                utxos[j].txid \notin SelectedIds(selected)
                => \A k \in 1..Len(selected.utxos) :
                      selected.utxos[k].value >= utxos[j].value
          /\ (/\ utxos = MakeUtxos(LargeOutputs) /\ amount = 40000
              /\ feeRate = [num |-> 1, den |-> 2])
             => SelectionValues(selected) = <<50000>>
    /\ \A k \in 1..Len(utxos) : utxos[k].txid = k

\* the selection without its last output does not cover
\* amount + estimateFee(n - 1, 2, feeRate)
ShorterDoesNotCover(sel) ==
    LET n == Len(sel.utxos)
    IN  SumSeq(SubSeq(SelectionValues(sel), 1, n - 1))
            < amount + estimateFee(n - 1, 2, feeRate)

\* C12 (amended): a selection returned by selectUTXOs is a largest-first
\* prefix of the available outputs, as LargestFirstPrefix says, and when it
\* has two or more outputs the selection without its last one does not cover
\* amount + estimateFee(n - 1, 2, feeRate).  (A selection always has at least
\* one output, also when amount + estimateFee(0, 2, feeRate) <= 0.)
C12_SelectsLargestFirstPrefix ==
    /\ LargestFirstPrefix
    /\ (selected # NoValue /\ selected.ok /\ Len(selected.utxos) >= 2)
       => ShorterDoesNotCover(selected)

\* C12 witness: from the outputs listed as 100, 500, 300 a direct call has
\* selected 500 and 300, in that order, and left 100
C12_Witness ==
    /\ bpc = "selected" /\ selected.ok
    /\ utxos = MakeUtxos(<<100, 500, 300>>)
    /\ SelectionValues(selected) = <<500, 300>>

\* a second case of C12: the outputs 50000, 30000, 20000 and amount 40000
C12_WitnessLargeOutputs ==
    /\ bpc = "selected" /\ selected.ok
    /\ utxos = MakeUtxos(LargeOutputs) /\ amount = 40000
    /\ feeRate = [num |-> 1, den |-> 2]
    /\ selected.fee = 113 /\ selected.change = 9887

\* C12 (as claimed): the same, with the last clause for every selection,
\* the one-output selections included.
C12_ShorterSelectionNeverCovers ==
    /\ LargestFirstPrefix
    /\ (selected # NoValue /\ selected.ok) => ShorterDoesNotCover(selected)

RECURSIVE SumOfValues(_)
SumOfValues(S) ==
    IF S = {} THEN 0
    ELSE LET j == CHOOSE x \in S : TRUE
         IN  utxos[j].value + SumOfValues(S \ {j})

\* the most that k of the available outputs are worth together
TopValue(k) ==
    LET sums == {SumOfValues(S) : S \in {T \in SUBSET (1..Len(utxos)) : Cardinality(T) = k}}
    IN  CHOOSE m \in sums : \A x \in sums : x <= m

\* some k >= 1 of the available outputs cover amount + estimateFee(k, 2, feeRate)
SomePrefixCovers ==
    \E k \in 1..Len(utxos) : TopValue(k) >= amount + estimateFee(k, 2, feeRate)

AllOutputsFallShort ==
    TopValue(Len(utxos)) < amount + estimateFee(Len(utxos), 2, feeRate)

InsufficientFunds(sel) ==
    /\ ~sel.ok
    /\ "utxos" \notin DOMAIN sel
    /\ sel.error = "Fondos insuficientes"
    /\ sel.minRequired = amount + estimateFee(Len(utxos), 2, feeRate)
    /\ sel.available = TopValue(Len(utxos))

\* C13 (amended): for a non-empty list of outputs, selectUTXOs fails exactly
\* when no largest-first prefix of k >= 1 outputs covers
\* amount + estimateFee(k, 2, feeRate); it then returns no selection, and the
\* insufficient-funds error carries the minimum required with every output,
\* amount + estimateFee(count of all outputs, 2, feeRate), and the amount
\* available, the sum of all outputs.
C13_InsufficientFundsWhenNoPrefixCovers ==
    (selected # NoValue /\ Len(utxos) > 0)
    => /\ selected.ok <=> SomePrefixCovers
       /\ ~selected.ok => /\ InsufficientFunds(selected)
                          /\ AllOutputsFallShort
                          /\ selected.available < selected.minRequired

\* C13 witness: a direct call on three outputs worth 900 together failed for
\* an amount of 2000
C13_Witness ==
    /\ bpc = "selected" /\ ~selected.ok
    /\ utxos = MakeUtxos(<<300, 100, 500>>) /\ amount = 2000
    /\ feeRate = [num |-> 1, den |-> 2]
    /\ selected.minRequired = 2261 /\ selected.available = 900

\* C13 (as claimed): whenever all the outputs together do not reach
\* amount + estimateFee(count of all outputs, 2, feeRate), selectUTXOs returns
\* no selection and fails with the insufficient-funds error.
C13_FailsWhenAllOutputsFallShort ==
    (selected # NoValue /\ Len(utxos) > 0 /\ AllOutputsFallShort)
    => InsufficientFunds(selected)

(***************************************************************************)
(* Payment payload codec: src/src/x402/payment-creator.ts                  *)
(*                                                                         *)
(* A text is a sequence of one-character strings.  A JSON value is         *)
(*   [t |-> "str", v |-> text]   [t |-> "num", v |-> n]                     *)
(*   [t |-> "bool", v |-> b]     [t |-> "null"]                             *)
(*   [t |-> "obj", v |-> sequence of [k |-> text, v |-> JSON value]]        *)
(* and Undefined is what reading a missing property gives.                 *)
(***************************************************************************)
Undefined == [t |-> "undefined"]
JStr(text)   == [t |-> "str", v |-> text]
JNum(n)      == [t |-> "num", v |-> n]
JBool(b)     == [t |-> "bool", v |-> b]
JArr(elements) == [t |-> "arr", v |-> elements]
JObj(members) == [t |-> "obj", v |-> members]
Member(key, val) == [k |-> key, v |-> val]

\* the printable ASCII characters, code 32 first (GRAVE is the grave accent)
AsciiChars ==
    <<" ", "!", "\"", "#", "$", "%", "&", "'", "(", ")", "*", "+", ",", "-", ".", "/",
      "0", "1", "2", "3", "4", "5", "6", "7", "8", "9", ":", ";", "<", "=", ">", "?",
      "@", "A", "B", "C", "D", "E", "F", "G", "H", "I", "J", "K", "L", "M", "N", "O",
      "P", "Q", "R", "S", "T", "U", "V", "W", "X", "Y", "Z", "[", "\\", "]", "^", "_",
      "GRAVE", "a", "b", "c", "d", "e", "f", "g", "h", "i", "j", "k", "l", "m", "n", "o",
      "p", "q", "r", "s", "t", "u", "v", "w", "x", "y", "z", "{", "|", "}", "~">>

Base64Chars ==
    <<"A", "B", "C", "D", "E", "F", "G", "H", "I", "J", "K", "L", "M", "N", "O", "P",
      "Q", "R", "S", "T", "U", "V", "W", "X", "Y", "Z", "a", "b", "c", "d", "e", "f",
      "g", "h", "i", "j", "k", "l", "m", "n", "o", "p", "q", "r", "s", "t", "u", "v",
      "w", "x", "y", "z", "0", "1", "2", "3", "4", "5", "6", "7", "8", "9", "+", "/">>

IndexOf(c, table) == CHOOSE i \in 1..Len(table) : table[i] = c

\* the UTF-8 byte of an ASCII character and back
charCode(c)     == 31 + IndexOf(c, AsciiChars)
fromCharCode(b) == AsciiChars[b - 31]

\* Buffer.from(text, 'utf8') and buffer.toString('utf8'), ASCII texts
utf8Bytes(text) == [k \in 1..Len(text) |-> charCode(text[k])]
utf8Text(bytes) == [k \in 1..Len(bytes) |-> fromCharCode(bytes[k])]

b64Char(sextet)  == Base64Chars[sextet + 1]
b64Value(c)      == IndexOf(c, Base64Chars) - 1

\* buffer.toString('base64'): three bytes give four characters, the last
\* group is padded with "="
RECURSIVE toBase64(_)
toBase64(bytes) ==
    IF Len(bytes) = 0 THEN <<>>
    ELSE IF Len(bytes) = 1
    THEN <<b64Char(bytes[1] \div 4), b64Char((bytes[1] % 4) * 16), "=", "=">>
    ELSE IF Len(bytes) = 2
    THEN <<b64Char(bytes[1] \div 4),
           b64Char((bytes[1] % 4) * 16 + bytes[2] \div 16),
           b64Char((bytes[2] % 16) * 4), "=">>
    ELSE <<b64Char(bytes[1] \div 4),
           b64Char((bytes[1] % 4) * 16 + bytes[2] \div 16),
           b64Char((bytes[2] % 16) * 4 + bytes[3] \div 64),
           b64Char(bytes[3] % 64)>>
         \o toBase64(SubSeq(bytes, 4, Len(bytes)))

\* Buffer.from(text, 'base64'): four characters give three bytes; decoding
\* stops at the padding
RECURSIVE fromBase64(_)
fromBase64(text) ==
    IF Len(text) < 2 \/ text[1] = "=" \/ text[2] = "=" THEN <<>>
    ELSE LET a == b64Value(text[1])
             b == b64Value(text[2])
             first == <<a * 4 + b \div 16>>
         IN  IF Len(text) < 3 \/ text[3] = "=" THEN first
             ELSE LET c == b64Value(text[3])
                      second == <<(b % 16) * 16 + c \div 4>>
                  IN  IF Len(text) < 4 \/ text[4] = "=" THEN first \o second
                      ELSE first \o second \o <<(c % 4) * 64 + b64Value(text[4])>>
                           \o fromBase64(SubSeq(text, 5, Len(text)))

Digits == <<"0", "1", "2", "3", "4", "5", "6", "7", "8", "9">>

RECURSIVE numberText(_)
numberText(n) ==
    IF n < 0 THEN <<"-">> \o numberText(-n)
    ELSE IF n < 10 THEN <<Digits[n + 1]>>
    ELSE numberText(n \div 10) \o <<Digits[(n % 10) + 1]>>

\* a JSON string literal: the quote and the backslash are escaped
RECURSIVE quoteBody(_)
quoteBody(text) ==
    IF text = <<>> THEN <<>>
    ELSE (IF Head(text) \in {"\"", "\\"} THEN <<"\\", Head(text)>> ELSE <<Head(text)>>)
         \o quoteBody(Tail(text))

quote(text) == <<"\"">> \o quoteBody(text) \o <<"\"">>

\* JSON.stringify(value): compact, members in insertion order
RECURSIVE stringify(_)
RECURSIVE stringifyMembers(_)
RECURSIVE stringifyElements(_)
stringifyElements(elements) ==
    IF elements = <<>> THEN <<>>
    ELSE stringify(Head(elements))
         \o (IF Len(elements) > 1 THEN <<",">> ELSE <<>>)
         \o stringifyElements(Tail(elements))

stringifyMembers(members) ==
    IF members = <<>> THEN <<>>
    ELSE quote(Head(members).k) \o <<":">> \o stringify(Head(members).v)
         \o (IF Len(members) > 1 THEN <<",">> ELSE <<>>)
         \o stringifyMembers(Tail(members))

\* the members JSON.stringify writes: those whose value is not undefined
defined(members) == SelectSeq(members, LAMBDA m : m.v.t # "undefined")

stringify(val) ==
    CASE val.t = "str"  -> quote(val.v)
      [] val.t = "num"  -> numberText(val.v)
      [] val.t = "bool" -> IF val.v THEN <<"t", "r", "u", "e">>
                                    ELSE <<"f", "a", "l", "s", "e">>
      [] val.t = "null" -> <<"n", "u", "l", "l">>
      [] val.t = "obj"  -> <<"{">> \o stringifyMembers(defined(val.v)) \o <<"}">>
      [] val.t = "arr"  -> <<"[">> \o stringifyElements(val.v) \o <<"]">>

\* JSON.stringify(value, null, 2): each member on a line of its own, indented
\* by two spaces for each level, and a space after the colon
indent(depth) == [k \in 1..(2 * depth) |-> " "]

RECURSIVE stringifyPretty(_, _)
RECURSIVE prettyMembers(_, _)
RECURSIVE prettyElements(_, _)
prettyElements(elements, depth) ==
    IF elements = <<>> THEN <<>>
    ELSE indent(depth) \o stringifyPretty(Head(elements), depth)
         \o (IF Len(elements) > 1 THEN <<",">> ELSE <<>>) \o <<"\n">>
         \o prettyElements(Tail(elements), depth)

prettyMembers(members, depth) ==
    IF members = <<>> THEN <<>>
    ELSE indent(depth) \o quote(Head(members).k) \o <<":", " ">>
         \o stringifyPretty(Head(members).v, depth)
         \o (IF Len(members) > 1 THEN <<",">> ELSE <<>>) \o <<"\n">>
         \o prettyMembers(Tail(members), depth)

stringifyPretty(val, depth) ==
    IF val.t = "obj" /\ defined(val.v) # <<>>
    THEN <<"{", "\n">> \o prettyMembers(defined(val.v), depth + 1)
         \o indent(depth) \o <<"}">>
    ELSE IF val.t = "arr" /\ val.v # <<>>
    THEN <<"[", "\n">> \o prettyElements(val.v, depth + 1)
         \o indent(depth) \o <<"]">>
    ELSE stringify(val)

ParseFail == [ok |-> FALSE]

\* the characters of a JSON string literal after its opening quote: the
\* characters up to the next quote or backslash are taken as they are
RECURSIVE parseStringBody(_, _, _)
parseStringBody(s, i, acc) ==
    LET stops == {j \in i..Len(s) : s[j] \in {"\"", "\\"}}
        scan(j) ==
            IF s[j] = "\"" THEN [ok |-> TRUE, val |-> acc \o SubSeq(s, i, j - 1), pos |-> j + 1]
            ELSE IF j + 1 <= Len(s) /\ s[j + 1] \in {"\"", "\\", "/"}
            THEN parseStringBody(s, j + 2, acc \o SubSeq(s, i, j - 1) \o <<s[j + 1]>>)
            ELSE ParseFail
    IN  IF stops = {} THEN ParseFail
        ELSE scan(CHOOSE j \in stops : \A m \in stops : j <= m)

DigitSet == {Digits[k] : k \in 1..10}

RECURSIVE parseDigits(_, _, _)
parseDigits(s, i, acc) ==
    IF i <= Len(s) /\ s[i] \in DigitSet
    THEN parseDigits(s, i + 1, acc * 10 + (IndexOf(s[i], Digits) - 1))
    ELSE [ok |-> TRUE, val |-> acc, pos |-> i]

\* the position of the first character at or after i that is not white space
WhiteSpace == {" ", "\n", "\t", "\r"}
ws(s, i) ==
    IF i > Len(s) \/ s[i] \notin WhiteSpace THEN i
    ELSE LET rest == {j \in i..Len(s) : s[j] \notin WhiteSpace}
         IN  IF rest = {} THEN Len(s) + 1
             ELSE CHOOSE j \in rest : \A m \in rest : j <= m

startsWith(s, i, word) ==
    /\ i + Len(word) - 1 <= Len(s)
    /\ SubSeq(s, i, i + Len(word) - 1) = word

\* JSON.parse, for texts made of objects, arrays, strings, integers, true,
\* false and null; white space may stand between the tokens
RECURSIVE parseValue(_, _)
RECURSIVE parseToken(_, _)
RECURSIVE parseMembers(_, _, _)
RECURSIVE parseElements(_, _, _)
parseElements(s, i, acc) ==
    LET val == parseValue(s, i)
    IN  IF ~val.ok \/ ws(s, val.pos) > Len(s) THEN ParseFail
        ELSE LET elements == Append(acc, val.val)
                 next == ws(s, val.pos)
             IN  IF s[next] = ","
                 THEN parseElements(s, next + 1, elements)
                 ELSE IF s[next] = "]"
                 THEN [ok |-> TRUE, val |-> JArr(elements), pos |-> next + 1]
                 ELSE ParseFail

parseMembers(s, i, acc) ==
    IF i > Len(s) \/ s[i] # "\"" THEN ParseFail
    ELSE LET key == parseStringBody(s, i + 1, <<>>)
         IN  IF ~key.ok \/ ws(s, key.pos) > Len(s) \/ s[ws(s, key.pos)] # ":" THEN ParseFail
             ELSE LET val == parseValue(s, ws(s, key.pos) + 1)
                  IN  IF ~val.ok \/ ws(s, val.pos) > Len(s) THEN ParseFail
                      ELSE LET members == Append(acc, Member(key.val, val.val))
                               next == ws(s, val.pos)
                           IN  IF s[next] = ","
                               THEN parseMembers(s, ws(s, next + 1), members)
                               ELSE IF s[next] = "}"
                               THEN [ok |-> TRUE, val |-> JObj(members), pos |-> next + 1]
                               ELSE ParseFail

parseValue(s, i) == parseToken(s, ws(s, i))

parseToken(s, i) ==
    IF i > Len(s) THEN ParseFail
    ELSE IF s[i] = "\""
    THEN LET r == parseStringBody(s, i + 1, <<>>)
         IN  IF r.ok THEN [ok |-> TRUE, val |-> JStr(r.val), pos |-> r.pos] ELSE ParseFail
    ELSE IF s[i] = "{"
    THEN IF ws(s, i + 1) <= Len(s) /\ s[ws(s, i + 1)] = "}"
         THEN [ok |-> TRUE, val |-> JObj(<<>>), pos |-> ws(s, i + 1) + 1]
         ELSE parseMembers(s, ws(s, i + 1), <<>>)
    ELSE IF s[i] = "["
    THEN IF ws(s, i + 1) <= Len(s) /\ s[ws(s, i + 1)] = "]"
         THEN [ok |-> TRUE, val |-> JArr(<<>>), pos |-> ws(s, i + 1) + 1]
         ELSE parseElements(s, i + 1, <<>>)
    ELSE IF s[i] \in DigitSet
    THEN LET r == parseDigits(s, i, 0)
         IN  [ok |-> TRUE, val |-> JNum(r.val), pos |-> r.pos]
    ELSE IF s[i] = "-" /\ i + 1 <= Len(s) /\ s[i + 1] \in DigitSet
    THEN LET r == parseDigits(s, i + 1, 0)
         IN  [ok |-> TRUE, val |-> JNum(-r.val), pos |-> r.pos]
    ELSE IF startsWith(s, i, <<"t", "r", "u", "e">>)
    THEN [ok |-> TRUE, val |-> JBool(TRUE), pos |-> i + 4]
    ELSE IF startsWith(s, i, <<"f", "a", "l", "s", "e">>)
    THEN [ok |-> TRUE, val |-> JBool(FALSE), pos |-> i + 5]
    ELSE IF startsWith(s, i, <<"n", "u", "l", "l">>)
    THEN [ok |-> TRUE, val |-> [t |-> "null"], pos |-> i + 4]
    ELSE ParseFail

JSONparse(s) ==
    LET r == parseValue(s, 1)
    IN  IF r.ok /\ ws(s, r.pos) = Len(s) + 1 THEN [ok |-> TRUE, val |-> r.val] ELSE ParseFail

\* value.key: the last member of that name of an object, undefined otherwise
getProp(val, key) ==
    IF val.t = "obj" /\ \E k \in 1..Len(val.v) : val.v[k].k = key
    THEN val.v[CHOOSE k \in 1..Len(val.v) :
                   /\ val.v[k].k = key
                   /\ \A j \in (k + 1)..Len(val.v) : val.v[j].k # key].v
    ELSE Undefined

\* JavaScript truthiness
truthy(val) ==
    CASE val.t = "str"  -> val.v # <<>>
      [] val.t = "num"  -> val.v # 0
      [] val.t = "bool" -> val.v
      [] val.t = "obj"  -> TRUE
      [] val.t = "arr"  -> TRUE
      [] OTHER          -> FALSE

Kx402Version    == <<"x", "4", "0", "2", "V", "e", "r", "s", "i", "o", "n">>
Kscheme         == <<"s", "c", "h", "e", "m", "e">>
Knetwork        == <<"n", "e", "t", "w", "o", "r", "k">>
Kpayload        == <<"p", "a", "y", "l", "o", "a", "d">>
Ktransaction    == <<"t", "r", "a", "n", "s", "a", "c", "t", "i", "o", "n">>
Kaccessibility  == <<"a", "c", "c", "e", "s", "s", "i", "b", "i", "l", "i", "t", "y">>
Klanguage       == <<"l", "a", "n", "g", "u", "a", "g", "e">>
KcognitiveLevel == <<"c", "o", "g", "n", "i", "t", "i", "v", "e", "L", "e", "v", "e", "l">>
KaudioFriendly  == <<"a", "u", "d", "i", "o", "F", "r", "i", "e", "n", "d", "l", "y">>
Texact          == <<"e", "x", "a", "c", "t">>
TbsvTestnet     == <<"b", "s", "v", "-", "t", "e", "s", "t", "n", "e", "t">>
TbsvMainnet     == <<"b", "s", "v", "-", "m", "a", "i", "n", "n", "e", "t">>
Tes             == <<"e", "s">>
Ten             == <<"e", "n">>
Tsimple         == <<"s", "i", "m", "p", "l", "e">>

\* the same encoder with the hex text normalised to lower case (a mutant)
lowerHexChar(c) ==
    CASE c = "A" -> "a" [] c = "B" -> "b" [] c = "C" -> "c"
      [] c = "D" -> "d" [] c = "E" -> "e" [] c = "F" -> "f" [] OTHER -> c

\* the envelope with the members of the accessibility object spread into it
\* instead of being nested under the key accessibility (a mutant)
envelopeOfSpreadAccessibility(hexText, net, acc) ==
    JObj(<<Member(Kx402Version, JNum(1)),
           Member(Kscheme, JStr(Texact)),
           Member(Knetwork, JStr(IF net = "testnet" THEN TbsvTestnet ELSE TbsvMainnet)),
           Member(Kpayload, JObj(<<Member(Ktransaction, JStr(hexText))>>))>>
         \o (IF acc # NoValue THEN acc.v ELSE <<>>))

\* the object literal paymentPayload
envelopeOf(hexText, net, acc) ==
    JObj(<<Member(Kx402Version, JNum(1)),
           Member(Kscheme, JStr(Texact)),
           Member(Knetwork, JStr(IF net = "testnet" THEN TbsvTestnet ELSE TbsvMainnet)),
           Member(Kpayload, JObj(<<Member(Ktransaction, JStr(hexText))>>))>>
         \o (IF acc # NoValue THEN <<Member(Kaccessibility, acc)>> ELSE <<>>))

createPaymentPayloadFromHexLowerCase(hexText, net, acc) ==
    toBase64(utf8Bytes(stringify(
        envelopeOf([k \in 1..Len(hexText) |-> lowerHexChar(hexText[k])], net, acc))))

\* JSON.stringify(paymentPayload), then Buffer.from(.., 'utf8').toString('base64')
createPaymentPayloadFromHex(hexText, net, acc) ==
    toBase64(utf8Bytes(stringify(envelopeOf(hexText, net, acc))))

\* tx.toHex(): the serialised transaction, abstracted to a hex text that
\* tells the numbers of inputs and outputs
toHex(t) == <<"0", Digits[Len(t.inputs) + 1], "0", Digits[Len(t.outputs) + 1]>>

\* createPaymentPayload(tx, network, accessibility)
createPaymentPayload(t, net, acc) == createPaymentPayloadFromHex(toHex(t), net, acc)

parsePaymentPayload(b64) ==
    LET payloadJson == utf8Text(fromBase64(b64))
        parsed == JSONparse(payloadJson)
    IN  IF ~parsed.ok
        THEN [ok |-> FALSE, error |-> <<"Error al parsear payload X402", "SyntaxError">>]
        ELSE IF parsed.val.t = "null"
        THEN [ok |-> FALSE, error |-> <<"Error al parsear payload X402", "TypeError">>]
        ELSE IF \/ ~truthy(getProp(parsed.val, Kx402Version))
                \/ ~truthy(getProp(parsed.val, Kscheme))
                \/ ~truthy(getProp(parsed.val, Knetwork))
                \/ ~truthy(getProp(parsed.val, Kpayload))
        THEN [ok |-> FALSE, error |-> <<"Error al parsear payload X402",
                                        "Estructura de payload X402 invalida">>]
        ELSE [ok |-> TRUE, payload |-> parsed.val]

extractTransactionFromPayload(b64) ==
    LET p == parsePaymentPayload(b64)
    IN  IF ~p.ok
        THEN [ok |-> FALSE, error |-> <<"Error al extraer transaccion", p.error>>]
        ELSE [ok |-> TRUE,
              value |-> getProp(getProp(p.payload, Kpayload), Ktransaction)]

\* a === b for a JSON value a and a string or number literal b
strictlyEquals(val, t, v) == val.t = t /\ val.v = v

\* value.length: defined on strings only (no arrays in the texts modelled)
hasLength(val) == val.t = "str"

\* validatePaymentPayload: the errors pushed, in order; an interpolated
\* value is kept as the JSON value itself.  p is what parsePaymentPayload
\* gave and extraction what extractTransactionFromPayload gave, each
\* computed once for the text b64.
validatePaymentPayload(b64) ==
    LET validate(p, extraction) ==
            IF ~p.ok
            THEN [valid |-> FALSE, threw |-> FALSE, payload |-> Undefined,
                  errors |-> <<[kind |-> "Error al parsear payload", detail |-> p.error]>>]
            ELSE LET version     == getProp(p.payload, Kx402Version)
                     scheme      == getProp(p.payload, Kscheme)
                     net         == getProp(p.payload, Knetwork)
                     transaction == getProp(getProp(p.payload, Kpayload), Ktransaction)
                     errors ==
                        (IF ~strictlyEquals(version, "num", 1)
                         THEN <<[kind |-> "Version X402 no soportada", detail |-> version]>>
                         ELSE <<>>)
                        \o (IF ~strictlyEquals(scheme, "str", Texact)
                            THEN <<[kind |-> "Scheme no soportado", detail |-> scheme]>>
                            ELSE <<>>)
                        \o (IF ~strictlyEquals(net, "str", TbsvMainnet)
                               /\ ~strictlyEquals(net, "str", TbsvTestnet)
                            THEN <<[kind |-> "Network invalida", detail |-> net]>>
                            ELSE <<>>)
                        \o (IF ~truthy(transaction)
                            THEN <<[kind |-> "Transaccion no presente en el payload",
                                    detail |-> NoValue]>>
                            ELSE <<>>)
                        \o (IF ~extraction.ok
                            THEN <<[kind |-> "Error al extraer transaccion",
                                    detail |-> extraction.error]>>
                            ELSE IF extraction.value.t \in {"undefined", "null"}
                            THEN <<[kind |-> "Error al extraer transaccion",
                                    detail |-> "TypeError"]>>
                            ELSE IF hasLength(extraction.value) /\ Len(extraction.value.v) = 0
                            THEN <<[kind |-> "Transaccion vacia", detail |-> NoValue]>>
                            ELSE <<>>)
                 IN  [valid |-> errors = <<>>, threw |-> FALSE, payload |-> p.payload,
                      errors |-> errors]
    IN  CHOOSE result \in {validate(p, extraction) :
                              p \in {parsePaymentPayload(b64)},
                              extraction \in {extractTransactionFromPayload(b64)}} : TRUE

(***************************************************************************)
(* Inputs of the codec.                                                    *)
(***************************************************************************)
HexChars == {"0", "a", "A", "F"}
HexTexts == SeqsUpTo(HexChars, MaxHexLen)
Networks == {"mainnet", "testnet"}
AccessibilityChoices ==
    { NoValue,
      JObj(<<Member(Klanguage, JStr(Tes))>>),
      JObj(<<Member(Klanguage, JStr(Ten)), Member(KcognitiveLevel, JStr(Tsimple)),
             Member(KaudioFriendly, JBool(TRUE))>>),
      JObj(<<Member(Kpayload, JObj(<<Member(Ktransaction, JStr(<<"0", "0">>))>>))>>) }

\* a field left out of an envelope
Absent == [t |-> "absent"]

\* envelopes made by another party: each field is left out, as expected,
\* of an unsupported value, or of another type
ForeignEnvelopes ==
    LET versions == {Absent, JNum(1), JNum(2), JNum(0), JStr(<<"1">>)}
        schemes  == {Absent, JStr(Texact), JStr(<<"u", "p", "t", "o">>), JNum(1)}
        networks == {Absent, JStr(TbsvTestnet), JStr(TbsvMainnet),
                     JStr(<<"b", "t", "c">>), JBool(TRUE)}
        payloads == {Absent,
                     JObj(<<Member(Ktransaction, JStr(<<"0", "a">>))>>),
                     JObj(<<Member(Ktransaction, JStr(<<>>))>>),
                     JObj(<<>>),
                     JObj(<<Member(Ktransaction, JNum(5))>>),
                     JStr(<<"0", "a">>)}
        keys == <<Kx402Version, Kscheme, Knetwork, Kpayload>>
        membersOf(fields) ==
            LET present == SelectSeq(<<1, 2, 3, 4>>, LAMBDA k : fields[k] # Absent)
            IN  [j \in 1..Len(present) |-> Member(keys[present[j]], fields[present[j]])]
    IN  {JObj(membersOf(<<v, sc, n, pl>>)) :
            v \in versions, sc \in schemes, n \in networks, pl \in payloads}

\* received texts that are not JSON objects
ForeignTexts ==
    {[t |-> "raw", v |-> text] :
        text \in {<<>>, <<"{">>, <<"n", "u", "l", "l">>, <<"5">>, <<"\"", "0", "a", "\"">>}}

\* the base64 text of what was received
headerOf(r) == toBase64(utf8Bytes(IF r.t = "raw" THEN r.v ELSE stringify(r)))

\* either the caller has a hex text to wrap, or a payload has come in
InitCodec ==
    /\ \/ /\ txHex \in HexTexts
          /\ network \in Networks
          /\ accessibility \in AccessibilityChoices
          /\ cpc = "start"
          /\ payloadBase64 = NoValue /\ received = NoValue
       \/ /\ txHex = <<>> /\ network = "mainnet" /\ accessibility = NoValue
          /\ cpc = "received"
          /\ received \in ForeignEnvelopes \cup ForeignTexts
          /\ payloadBase64 = headerOf(received)
    /\ extracted = NoValue /\ parsedPayload = NoValue /\ validation = NoValue
    /\ builderIdle /\ netIdle /\ flowIdle /\ vaultIdle /\ walletIdle

\* the transactions createPaymentPayload is given: one or two inputs and outputs
CodecTransactions ==
    {[inputs |-> [k \in 1..ni |-> k], outputs |-> [k \in 1..no |-> k]] :
        ni \in 1..2, no \in 1..2}

\* createPaymentPayload on a built transaction, whose hex text is tx.toHex()
CallCreatePaymentPayload ==
    /\ cpc = "start" /\ txHex = <<>>
    /\ \E t \in CodecTransactions :
          /\ txHex' = toHex(t)
          /\ payloadBase64' = createPaymentPayload(t, network, accessibility)
    /\ cpc' = "encoded"
    /\ UNCHANGED <<network, accessibility, extracted, received, parsedPayload, validation>>
    /\ UNCHANGED <<builderVars, netVars, flowVars, vaultVars, walletVars>>

CallParsePaymentPayload ==
    /\ cpc \in {"encoded", "received"} /\ parsedPayload = NoValue
    /\ parsedPayload' = parsePaymentPayload(payloadBase64)
    /\ UNCHANGED <<txHex, network, accessibility, cpc, payloadBase64, extracted,
                   received, validation>>
    /\ UNCHANGED <<builderVars, netVars, flowVars, vaultVars, walletVars>>

CallValidatePaymentPayload ==
    /\ cpc \in {"encoded", "received"} /\ validation = NoValue
    /\ validation' = validatePaymentPayload(payloadBase64)
    /\ UNCHANGED <<txHex, network, accessibility, cpc, payloadBase64, extracted,
                   received, parsedPayload>>
    /\ UNCHANGED <<builderVars, netVars, flowVars, vaultVars, walletVars>>

CallCreatePaymentPayloadFromHex ==
    /\ cpc = "start"
    /\ payloadBase64' = createPaymentPayloadFromHex(txHex, network, accessibility)
    /\ cpc' = "encoded"
    /\ UNCHANGED <<txHex, network, accessibility, extracted, received, parsedPayload,
                   validation>>
    /\ UNCHANGED <<builderVars, netVars, flowVars, vaultVars, walletVars>>

CallExtractTransactionFromPayload ==
    /\ cpc = "encoded"
    /\ extracted' = extractTransactionFromPayload(payloadBase64)
    /\ cpc' = "extracted"
    /\ UNCHANGED <<txHex, network, accessibility, payloadBase64, received,
                   parsedPayload, validation>>
    /\ UNCHANGED <<builderVars, netVars, flowVars, vaultVars, walletVars>>

NextCodec ==
    \/ CallCreatePaymentPayloadFromHex
    \/ CallCreatePaymentPayload
    \/ CallExtractTransactionFromPayload
    \/ CallParsePaymentPayload
    \/ CallValidatePaymentPayload

SpecCodec == InitCodec /\ [][NextCodec]_vars

(***************************************************************************)
(* Claims about the codec (checked under SpecCodec).                       *)
(***************************************************************************)
\* C4: for every hex text (lower, upper or mixed case), both wallet networks
\* and any accessibility metadata, extracting the transaction from the
\* envelope made by createPaymentPayloadFromHex returns the hex text
\* itself, character for character.
C4_ExtractReturnsTheEncodedHex ==
    cpc = "extracted"
    => /\ extracted.ok
       /\ extracted.value.t = "str"
       /\ Len(extracted.value.v) = Len(txHex)
       /\ \A k \in 1..Len(txHex) : extracted.value.v[k] = txHex[k]

\* C4 witness: a mixed-case hex text was encoded for testnet together with
\* accessibility metadata, and extracted again
C4_Witness ==
    /\ cpc = "extracted" /\ extracted.ok
    /\ txHex = <<"a", "F", "0">> /\ network = "testnet"
    /\ accessibility # NoValue

\* field key of the envelope a received payload was made from
FieldOf(r, key) ==
    IF r.t = "obj" /\ \E k \in 1..Len(r.v) : r.v[k].k = key
    THEN r.v[CHOOSE k \in 1..Len(r.v) : r.v[k].k = key].v
    ELSE Absent

TransactionOf(r) == FieldOf(FieldOf(r, Kpayload), Ktransaction)

\* all five fields are there with the right types: the version an integer,
\* scheme, network and transaction strings, payload an object
WellTyped(r) ==
    /\ FieldOf(r, Kx402Version).t = "num"
    /\ FieldOf(r, Kscheme).t = "str"
    /\ FieldOf(r, Knetwork).t = "str"
    /\ FieldOf(r, Kpayload).t = "obj"
    /\ TransactionOf(r).t = "str"

\* C14 (as claimed): parsePaymentPayload fails with the malformed-envelope
\* error for every received text whose JSON lacks x402Version, scheme,
\* network, payload or payload.transaction or has one of them with the wrong
\* type; it returns an envelope only when all are there with the right types.
C14_DecodeRejectsMalformedEnvelopes ==
    (cpc = "received" /\ parsedPayload # NoValue)
    => /\ parsedPayload.ok => WellTyped(received)
       /\ ~WellTyped(received)
            => /\ ~parsedPayload.ok
               /\ parsedPayload.error[1] = "Error al parsear payload X402"

\* the violations validatePaymentPayload looks for, stated of the envelope
UnsupportedVersion(r) ==
    FieldOf(r, Kx402Version) # Absent /\ ~strictlyEquals(FieldOf(r, Kx402Version), "num", 1)
UnsupportedScheme(r) ==
    FieldOf(r, Kscheme) # Absent /\ ~strictlyEquals(FieldOf(r, Kscheme), "str", Texact)
UnknownNetwork(r) ==
    /\ FieldOf(r, Knetwork) # Absent
    /\ ~strictlyEquals(FieldOf(r, Knetwork), "str", TbsvMainnet)
    /\ ~strictlyEquals(FieldOf(r, Knetwork), "str", TbsvTestnet)
EmptyTransaction(r) == strictlyEquals(TransactionOf(r), "str", <<>>)

NoViolation(r) ==
    /\ WellTyped(r)
    /\ ~UnsupportedVersion(r) /\ ~UnsupportedScheme(r)
    /\ ~UnknownNetwork(r) /\ ~EmptyTransaction(r)

HasError(v, kinds) == \E k \in 1..Len(v.errors) : v.errors[k].kind \in kinds

\* C15 (as claimed): validatePaymentPayload never throws, returns valid = true
\* exactly when the received text has no violation, and its errors list has
\* an entry for each of the violations present: unsupported version,
\* unsupported scheme, unknown network, empty transaction field.
C15_ValidationAggregatesViolations ==
    (cpc = "received" /\ validation # NoValue)
    => /\ ~validation.threw
       /\ validation.valid <=> NoViolation(received)
       /\ validation.valid <=> (validation.errors = <<>>)
       /\ UnsupportedVersion(received)
            => HasError(validation, {"Version X402 no soportada"})
       /\ UnsupportedScheme(received)
            => HasError(validation, {"Scheme no soportado"})
       /\ UnknownNetwork(received)
            => HasError(validation, {"Network invalida"})
       /\ EmptyTransaction(received)
            => HasError(validation, {"Transaccion vacia",
                                     "Transaccion no presente en el payload"})

\* C16: the envelope decoded from a payload made by createPaymentPayload or
\* createPaymentPayloadFromHex has x402Version = 1, scheme = "exact",
\* network = "bsv-testnet" for testnet and "bsv-mainnet" for mainnet, and the
\* hex text given as its transaction, with and without accessibility metadata.
C16_EnvelopeFieldsOfEncodedPayload ==
    (cpc \in {"encoded", "extracted"} /\ parsedPayload # NoValue)
    => /\ parsedPayload.ok
       /\ strictlyEquals(getProp(parsedPayload.payload, Kx402Version), "num", 1)
       /\ strictlyEquals(getProp(parsedPayload.payload, Kscheme), "str",
                         <<"e", "x", "a", "c", "t">>)
       /\ strictlyEquals(getProp(parsedPayload.payload, Knetwork), "str",
                         IF network = "testnet"
                         THEN <<"b", "s", "v", "-", "t", "e", "s", "t", "n", "e", "t">>
                         ELSE <<"b", "s", "v", "-", "m", "a", "i", "n", "n", "e", "t">>)
       /\ strictlyEquals(getProp(getProp(parsedPayload.payload, Kpayload), Ktransaction),
                         "str", txHex)

\* C16 witness: a testnet payload made with accessibility metadata that has
\* a payload.transaction member of its own was decoded
C16_Witness ==
    /\ cpc = "encoded" /\ parsedPayload # NoValue /\ parsedPayload.ok
    /\ network = "testnet" /\ txHex = <<"A", "0">>
    /\ accessibility # NoValue
    /\ getProp(accessibility, Kpayload) # Undefined

\* a second case of C16: a mainnet payload made by createPaymentPayload from
\* a transaction with one input and two outputs
C16_WitnessFromTransaction ==
    /\ cpc = "encoded" /\ parsedPayload # NoValue /\ parsedPayload.ok
    /\ network = "mainnet" /\ txHex = <<"0", "1", "0", "2">>

(***************************************************************************)
(* Network client: class NetworkClient of src/src/tools/send-transaction.ts *)
(*                                                                         *)
(* A response is [status, body]; status 0 stands for an AxiosError without *)
(* a response (a transport failure).  The body of an error response is     *)
(* [kind, text, marks]: kind "string" or "object" (typeof data), text <<>> *)
(* for an empty body, and marks the provider phrases the body contains.    *)
(* An Error is [message, cause].                                           *)
(***************************************************************************)
maxRetries     == 3
initialDelayMs == 1000
maxDelayMs     == 10000

AlreadyKnownPhrases == {"Transaction already in the mempool", "txn-already-known",
                        "Transaction already exists", "already in block chain"}
StaleInputsPhrases  == {"Missing inputs", "bad-txns-inputs-spent", "txn-mempool-conflict"}

TextBody(marks) == [kind |-> "string", text |-> <<"provider text">>, marks |-> marks]
EmptyBody       == [kind |-> "string", text |-> <<>>, marks |-> {}]
\* a JSON error object; it may quote a provider phrase without being a string
ObjectBody      == [kind |-> "object", text |-> <<"json">>, marks |-> {"txn-already-known"}]
Message(text)   == [kind |-> "string", text |-> text, marks |-> {}]

\* getBackoffDelay growing linearly instead of doubling (a mutant)
getBackoffDelayLinear(att) == Min(initialDelayMs * (att + 1), maxDelayMs)

getBackoffDelay(att) == Min(initialDelayMs * Pow2(att), maxDelayMs)

\* isRetryableError treating every error status as retryable (a mutant)
isRetryableErrorAnyStatus(resp) ==
    IF resp.status = 0 THEN TRUE ELSE resp.status >= 400

isRetryableError(resp) ==
    IF resp.status = 0 THEN TRUE
    ELSE IF resp.status >= 500 THEN TRUE
    ELSE IF resp.status = 429 THEN TRUE
    ELSE FALSE

\* AxiosError.message
axiosMessage(resp) ==
    IF resp.status = 0 THEN Message(<<"Network Error">>)
    ELSE Message(<<"Request failed with status code", resp.status>>)

Return(value) == [kind |-> "return", value |-> value]
Throw(error)  == [kind |-> "throw", error |-> error]
Err(message, cause) == [message |-> message, cause |-> cause]
Retry(delay)  == [kind |-> "retry", delay |-> delay]

GetOps == {"getUTXOs", "getTransactionHex", "getTransactionHistory",
           "getTransactionDetails", "getCurrentBlockHeight"}
NetOps == GetOps \cup {"broadcastTransaction"}

errorPrefix(op) ==
    CASE op = "getUTXOs"              -> "Error al obtener UTXOs"
      [] op = "getTransactionHex"     -> "Error al obtener transaccion"
      [] op = "getTransactionHistory" -> "Error al obtener historial de transacciones"
      [] op = "getTransactionDetails" -> "Error al obtener detalles de transaccion"
      [] op = "getCurrentBlockHeight" -> "Error al obtener altura del bloque"

\* utxos.map(...) of getUTXOs: the indexer's entries in our UTXO shape
mapUtxos(data) ==
    [k \in 1..Len(data) |->
        [txid |-> data[k].tx_hash, vout |-> data[k].tx_pos, value |-> data[k].value]]

\* what a GET method returns for the data of a 200 response
okValue(op, data) ==
    CASE op = "getUTXOs"              -> mapUtxos(data)
      [] op = "getCurrentBlockHeight" -> data.blocks
      [] OTHER                        -> data

\* the catch block of a GET method without its special case for 404: the
\* not-found answer is reported like any other client error (a mutant)
getAttemptNotFoundThrows(op, arg, att, resp) ==
    IF resp.status = 200 THEN Return(okValue(op, resp.body))
    ELSE IF resp.status \in 201..299
    THEN Throw(Err(errorPrefix(op), Message(<<"Unexpected status", resp.status>>)))
    ELSE IF isRetryableError(resp) /\ att < maxRetries
    THEN Retry(getBackoffDelay(att))
    ELSE Throw(Err(errorPrefix(op), axiosMessage(resp)))

\* one iteration of the loop of a GET method: what the try block and its
\* catch do with the response to this attempt
getAttempt(op, arg, att, resp) ==
    IF resp.status = 200 THEN Return(okValue(op, resp.body))
    ELSE IF resp.status \in 201..299
    THEN Throw(Err(errorPrefix(op), Message(<<"Unexpected status", resp.status>>)))
    ELSE IF resp.status = 404 /\ op \in {"getUTXOs", "getTransactionHistory"}
    THEN Return(<<>>)
    ELSE IF resp.status = 404 /\ op \in {"getTransactionHex", "getTransactionDetails"}
    THEN Throw(Err("Transaccion no encontrada", [txid |-> arg]))
    ELSE IF isRetryableError(resp) /\ att < maxRetries
    THEN Retry(getBackoffDelay(att))
    ELSE Throw(Err(errorPrefix(op), axiosMessage(resp)))

\* error.response?.data || error.message
broadcastErrorMessage(resp) ==
    IF resp.status # 0 /\ (resp.body.kind = "object" \/ resp.body.text # <<>>)
    THEN resp.body
    ELSE axiosMessage(resp)

includesAny(msg, phrases) == msg.kind = "string" /\ msg.marks \cap phrases # {}

\* the catch block of broadcastTransaction asking for a retry before it
\* looks at the error text (a mutant)
broadcastAttemptRetryFirst(att, resp) ==
    IF resp.status = 200 THEN Return([success |-> TRUE, txid |-> resp.body])
    ELSE IF resp.status \in 201..299
    THEN Return([success |-> FALSE, error |-> Message(<<"Unexpected status", resp.status>>)])
    ELSE LET errorMessage == broadcastErrorMessage(resp)
         IN  IF isRetryableError(resp) /\ att < maxRetries
             THEN Retry(getBackoffDelay(att))
             ELSE IF includesAny(errorMessage, AlreadyKnownPhrases)
             THEN Return([success |-> FALSE, error |-> Message(<<"Transaccion ya fue broadcast">>)])
             ELSE Return([success |-> FALSE, error |-> errorMessage])

\* one iteration of the loop of broadcastTransaction
broadcastAttempt(att, resp) ==
    IF resp.status = 200 THEN Return([success |-> TRUE, txid |-> resp.body])
    ELSE IF resp.status \in 201..299
    THEN Return([success |-> FALSE, error |-> Message(<<"Unexpected status", resp.status>>)])
    ELSE LET errorMessage == broadcastErrorMessage(resp)
         IN  IF includesAny(errorMessage, AlreadyKnownPhrases)
             THEN Return([success |-> FALSE, error |-> Message(<<"Transaccion ya fue broadcast">>)])
             ELSE IF includesAny(errorMessage, StaleInputsPhrases)
             THEN Return([success |-> FALSE, error |-> errorMessage])
             ELSE IF isRetryableError(resp) /\ att < maxRetries
             THEN Retry(getBackoffDelay(att))
             ELSE Return([success |-> FALSE,
                          error |-> IF errorMessage.kind = "string" THEN errorMessage
                                    ELSE Message(<<"Error al broadcast">>)])

attemptOutcome(op, arg, att, resp) ==
    IF op = "broadcastTransaction" THEN broadcastAttempt(att, resp)
    ELSE getAttempt(op, arg, att, resp)

\* the statement after the loop
afterLoop(op) ==
    IF op = "broadcastTransaction"
    THEN Return([success |-> FALSE, error |-> Message(<<"Max retries excedido">>)])
    ELSE Throw(Err("Max retries excedido", [op |-> op]))

\* one pass through the loop body of the method in progress: the request is
\* sent, resp is what comes back, and the method returns, throws, or sleeps
\* and goes on to the next iteration (leaving the loop when it is exhausted)
NetAttempt(resp) ==
    /\ netState = "running"
    /\ attempt <= maxRetries
    /\ history' = Append(history, resp)
    /\ LET outcome == attemptOutcome(netOp, netArg, attempt, resp)
       IN  IF outcome.kind = "retry"
           THEN /\ sleeps' = Append(sleeps, outcome.delay)
                /\ attempt' = attempt + 1
                /\ netState' = IF attempt + 1 <= maxRetries THEN "running" ELSE "done"
                /\ netResult' = IF attempt + 1 <= maxRetries THEN netResult
                                ELSE afterLoop(netOp)
           ELSE /\ netResult' = outcome
                /\ netState' = "done"
                /\ UNCHANGED <<sleeps, attempt>>
    /\ UNCHANGED <<netOp, netArg>>

(***************************************************************************)
(* The remote source as the network client sees it.                        *)
(***************************************************************************)
Listing(values) ==
    [k \in 1..Len(values) |->
        [tx_hash |-> k, tx_pos |-> 0, value |-> values[k], height |-> 800000 + k]]

\* the source transaction of a listed output: the value of that output
SourceTx(txid, value) == [hexOf |-> txid, outputSatoshis |-> value]

ErrorStatuses == {400, 404, 429, 500}

ErrorBodies(op) ==
    IF op = "broadcastTransaction"
    THEN {TextBody({}), EmptyBody, ObjectBody,
          TextBody({"txn-already-known", "Missing inputs"})}
         \cup {TextBody({m}) : m \in AlreadyKnownPhrases \cup StaleInputsPhrases}
    ELSE {TextBody({})}

OkBodies(op) ==
    CASE op = "getUTXOs"              -> {Listing(<<>>), Listing(<<500>>), Listing(<<100, 300>>)}
      [] op = "getTransactionHex"     -> {SourceTx(1, 500)}
      [] op = "getTransactionHistory" -> {<<>>, <<[tx_hash |-> 1, height |-> 800001, tx_pos |-> 0]>>}
      [] op = "getTransactionDetails" -> {[txid |-> 1]}
      [] op = "getCurrentBlockHeight" -> {[blocks |-> 800001]}
      [] op = "broadcastTransaction"  -> {<<"txid">>}

NetResponses(op) ==
    {[status |-> 0, body |-> EmptyBody], [status |-> 204, body |-> EmptyBody]}
    \cup {[status |-> 200, body |-> b] : b \in OkBodies(op)}
    \cup {[status |-> st, body |-> b] : st \in ErrorStatuses, b \in ErrorBodies(op)}

InitNet ==
    /\ netOp \in NetOps
    /\ netArg = (IF netOp = "broadcastTransaction" THEN <<"txhex">> ELSE 1)
    /\ netState = "running"
    /\ attempt = 0 /\ history = <<>> /\ sleeps = <<>> /\ netResult = NoValue
    /\ builderIdle /\ codecIdle /\ flowIdle /\ vaultIdle /\ walletIdle

NetClientAttempt ==
    /\ \E resp \in NetResponses(netOp) : NetAttempt(resp)
    /\ UNCHANGED <<builderVars, codecVars, flowVars, vaultVars, walletVars>>

NextNet == NetClientAttempt

SpecNet == InitNet /\ [][NextNet]_vars

(***************************************************************************)
(* Claims about the network client (checked under SpecNet).                *)
(***************************************************************************)
\* a failure the retry policy names: no response, a 5xx or a 429
RetryableFailure(resp) ==
    resp.status = 0 \/ resp.status \in 500..599 \/ resp.status = 429

OtherClientError(resp) == resp.status \in 400..499 /\ resp.status # 429

\* C5: in every chain-data operation a further attempt is made only after a
\* transport failure, a 5xx or a 429, at most 4 attempts are made, and a 4xx
\* other than 429 ends the operation at that attempt, with no sleep and no
\* retry after it.
C5_RetryOnlyAfterRetryableFailure ==
    /\ Len(history) <= 4
    /\ \A k \in 1..Len(history) :
          /\ k < Len(history) => RetryableFailure(history[k])
          /\ OtherClientError(history[k])
               => /\ k = Len(history)
                  /\ netState = "done"
                  /\ Len(sleeps) = k - 1

\* C5 witness: an operation retried twice and was then ended by a 400
C5_Witness ==
    /\ Len(history) = 3 /\ netState = "done"
    /\ history[1].status = 0 /\ history[2].status = 500 /\ history[3].status = 400
    /\ netResult.kind = "throw"

\* C6: the sleep before retry k is min(1000 * 2^(k-1), 10000) ms, that is
\* 1 s, 2 s, 4 s; no sleep follows the last attempt; a call answered 429
\* three times and then 200 returns the successful result after 7 s of sleep.
C6_BackoffSchedule ==
    /\ Len(sleeps) <= 3
    /\ \A k \in 1..Len(sleeps) :
          /\ sleeps[k] = Min(1000 * Pow2(k - 1), 10000)
          /\ sleeps[k] = <<1000, 2000, 4000>>[k]
    /\ netState = "running" => Len(sleeps) = Len(history)
    /\ netState = "done" => Len(sleeps) = Len(history) - 1
    /\ (/\ Len(history) = 4
        /\ \A k \in 1..3 : history[k].status = 429
        /\ history[4].status = 200)
       => /\ netState = "done" /\ netResult.kind = "return"
          /\ netOp = "broadcastTransaction" => netResult.value.success
          /\ SumSeq(sleeps) = 7000

\* C6 witness: getTransactionHex answered 429, 429, 429, 200 has returned
C6_Witness ==
    /\ netOp = "getTransactionHex" /\ netState = "done"
    /\ Len(history) = 4
    /\ \A k \in 1..3 : history[k].status = 429
    /\ history[4].status = 200
    /\ netResult = Return(SourceTx(1, 500))
    /\ sleeps = <<1000, 2000, 4000>>

\* an error response whose text broadcastTransaction classifies
ClassifiedAlreadyKnown(resp) ==
    /\ resp.status \in 400..599
    /\ resp.body.kind = "string"
    /\ resp.body.marks \cap AlreadyKnownPhrases # {}

ClassifiedStaleInputs(resp) ==
    /\ resp.status \in 400..599
    /\ resp.body.kind = "string"
    /\ resp.body.marks \cap StaleInputsPhrases # {}

\* C7 (as claimed): when all 4 attempts fail with retryable failures, the
\* operation fails with the max-retries-exceeded error, not with the error
\* a direct, non-retried failure produces.
C7_ExhaustionRaisesMaxRetries ==
    (/\ netState = "done" /\ Len(history) = 4
     /\ \A k \in 1..4 : /\ RetryableFailure(history[k])
                        /\ ~ClassifiedAlreadyKnown(history[k])
                        /\ ~ClassifiedStaleInputs(history[k]))
    => IF netOp = "broadcastTransaction"
       THEN netResult = afterLoop(netOp)
       ELSE /\ netResult.kind = "throw"
            /\ netResult.error.message = "Max retries excedido"

\* C8: broadcastTransaction never sends the transaction again after an error
\* whose text is classified as already-known or stale inputs, whatever the
\* status of that response: it returns at once a result with success = false
\* and an error text; and it never throws.
C8_NoResendAfterClassifiedError ==
    netOp = "broadcastTransaction"
    => /\ \A k \in 1..Len(history) :
             (ClassifiedAlreadyKnown(history[k]) \/ ClassifiedStaleInputs(history[k]))
             => /\ k = Len(history)
                /\ netState = "done"
                /\ netResult.kind = "return"
                /\ netResult.value.success = FALSE
                /\ netResult.value.error.kind = "string"
                /\ netResult.value.error.text # <<>>
       /\ netState = "done" => netResult.kind = "return"

\* C8 witness: a broadcast was retried once and then answered 500 with a
\* stale-inputs text, which ended it
C8_Witness ==
    /\ netOp = "broadcastTransaction" /\ netState = "done"
    /\ Len(history) = 2
    /\ history[2].status = 500 /\ ClassifiedStaleInputs(history[2])
    /\ netResult.value.success = FALSE

\* a second case of C8: a 429 carrying an already-known text ended the call
C8_WitnessAlreadyKnown ==
    /\ netOp = "broadcastTransaction" /\ netState = "done"
    /\ Len(history) = 1
    /\ history[1].status = 429 /\ ClassifiedAlreadyKnown(history[1])
    /\ netResult.value.error = Message(<<"Transaccion ya fue broadcast">>)

\* C11: getUTXOs and getTransactionHistory answer a 404 with an empty list:
\* the 404 is the last response of the call, on whichever attempt it arrives,
\* no sleep and no further request follows it, and the call returns <<>>
\* instead of throwing.
C11_NotFoundIsEmptyList ==
    netOp \in {"getUTXOs", "getTransactionHistory"}
    => \A k \in 1..Len(history) :
          history[k].status = 404
          => /\ k = Len(history)
             /\ netState = "done"
             /\ Len(sleeps) = k - 1
             /\ netResult = Return(<<>>)

\* C11 witness: getTransactionHistory was retried twice and then answered 404
C11_Witness ==
    /\ netOp = "getTransactionHistory" /\ netState = "done"
    /\ Len(history) = 3
    /\ history[1].status = 429 /\ history[2].status = 0 /\ history[3].status = 404
    /\ netResult = Return(<<>>)

\* a second case of C11: getUTXOs answered 404 on its last (fourth) attempt
C11_WitnessLastAttempt ==
    /\ netOp = "getUTXOs" /\ netState = "done"
    /\ Len(history) = 4 /\ history[4].status = 404
    /\ netResult = Return(<<>>)

(***************************************************************************)
(* Tool handlers: handleSendTransaction (src/src/tools/send-transaction.ts), *)
(* handleCreateX402Payment (src/unnamed/part_007) and                      *)
(* buildTransactionComplete (src/src/bsv/transaction-builder.ts).          *)
(* Each action runs a handler from one await on remote or disk I/O to the  *)
(* next.                                                                   *)
(***************************************************************************)
Tools == {"send_transaction", "create_x402_payment", "buildTransactionComplete"}

\* the handler's arguments: which required texts are present, the amount,
\* the fee rate and (create_x402_payment) the network asked for
ArgsChoices ==
    { [walletId |-> w, password |-> p, payTo |-> t, amount |-> a, feeRate |-> r,
       network |-> n] :
        w \in BOOLEAN, p \in BOOLEAN, t \in BOOLEAN,
        a \in {0, 387, 600, 2000}, r \in {[num |-> 1, den |-> 2]},
        n \in {"mainnet", "testnet", "regtest"} }

\* the arguments worth telling apart: at most one required text is missing,
\* and the amount and network vary only when all of them are there
FlowArgs ==
    { a \in ArgsChoices :
        \/ a.walletId /\ a.password /\ a.payTo
        \/ /\ Cardinality({f \in {"walletId", "password", "payTo"} : ~a[f]}) = 1
           /\ a.amount = 387 /\ a.network = "mainnet" }

Failure(message, cause) == [success |-> FALSE, error |-> Err(message, cause)]

\* the first failed check of the handler's parameter validation, or NoValue
validationError(t, a) ==
    IF ~a.walletId THEN Err("Se requiere walletId", NoValue)
    ELSE IF ~a.password THEN Err("Se requiere password", NoValue)
    ELSE IF ~a.payTo THEN Err("Se requiere toAddress / payTo", NoValue)
    ELSE IF a.amount = 0 \/ a.amount <= 0
    THEN Err("Se requiere amount (debe ser mayor a 0)", NoValue)
    ELSE IF t = "create_x402_payment" /\ a.network \notin {"mainnet", "testnet"}
    THEN Err("network debe ser mainnet o testnet", NoValue)
    ELSE NoValue

\* every handler broadcasting what it built (a mutant)
stepAfterBuildAlwaysBroadcast(t) == "broadcast"

\* what a handler does with the built transaction: send_transaction goes on
\* to networkClient.broadcastTransaction, the others return it
stepAfterBuild(t) == IF t = "send_transaction" THEN "broadcast" ELSE "respond"

\* a call of a NetworkClient method: the loop is entered with attempt = 0
CallNet(op, arg) ==
    /\ netOp' = op /\ netArg' = arg /\ netState' = "running"
    /\ attempt' = 0 /\ history' = <<>> /\ sleeps' = <<>> /\ netResult' = NoValue

Finish(resp) == /\ response' = resp /\ fpc' = "done"

\* the catch block of a tool handler, or the rethrow of buildTransactionComplete
Fail(err) ==
    Finish(IF tool = "buildTransactionComplete"
           THEN Failure("Error al construir transaccion completa", err)
           ELSE [success |-> FALSE, error |-> err])

InitFlow ==
    /\ tool \in Tools
    /\ args \in FlowArgs
    /\ tool = "buildTransactionComplete"
         => args.walletId /\ args.password /\ args.payTo /\ args.network # "regtest"
    /\ fpc = "start"
    /\ wallet = NoValue /\ fetched = <<>> /\ broadcastCalls = 0
    /\ broadcastResult = NoValue /\ response = NoValue
    /\ utxos = <<>> /\ amount = args.amount /\ feeRate = args.feeRate
    /\ bpc = "off" /\ selected = NoValue /\ tx = NoValue
    /\ buildError = NoValue /\ txInfo = NoValue
    /\ codecIdle /\ netIdle /\ vaultIdle /\ walletIdle

flowBuilderFrame == UNCHANGED <<amount, feeRate, bpc, codecVars, vaultVars, walletVars>>

\* a tool handler validates its arguments and asks for the wallet
\* (buildTransactionComplete is handed the key and goes straight to getUTXOs)
HandlerStart ==
    /\ fpc = "start"
    /\ IF tool = "buildTransactionComplete"
       THEN /\ wallet' = [address |-> "own-address", network |-> args.network]
            /\ CallNet("getUTXOs", "own-address")
            /\ fpc' = "getUTXOs"
            /\ UNCHANGED response
       ELSE LET err == validationError(tool, args)
            IN  IF err # NoValue
                THEN Fail(err) /\ UNCHANGED <<wallet, netVars>>
                ELSE fpc' = "loadWallet" /\ UNCHANGED <<wallet, netVars, response>>
    /\ UNCHANGED <<tool, args, fetched, broadcastCalls, broadcastResult>>
    /\ UNCHANGED <<utxos, selected, tx, buildError, txInfo>>
    /\ flowBuilderFrame

\* walletManager.loadWallet(walletId, password) returns the unlocked wallet
\* or throws; the handler then asks for the wallet's UTXOs
HandlerLoadWallet ==
    /\ fpc = "loadWallet"
    /\ \E loaded \in {NoValue} \cup {[address |-> "own-address", network |-> n] :
                                     n \in {"mainnet", "testnet"}} :
          IF loaded = NoValue
          THEN Fail(Err("loadWallet failed", NoValue)) /\ UNCHANGED <<wallet, netVars>>
          ELSE IF tool = "create_x402_payment" /\ loaded.network # args.network
          THEN /\ Fail(Err("La wallet esta configurada para otra network", NoValue))
               /\ wallet' = loaded /\ UNCHANGED netVars
          ELSE /\ wallet' = loaded
               /\ CallNet("getUTXOs", loaded.address)
               /\ fpc' = "getUTXOs"
               /\ UNCHANGED response
    /\ UNCHANGED <<tool, args, fetched, broadcastCalls, broadcastResult>>
    /\ UNCHANGED <<utxos, selected, tx, buildError, txInfo>>
    /\ flowBuilderFrame

\* const utxos = await networkClient.getUTXOs(address), then the first
\* iteration of fetchSourceTransactions
AfterGetUTXOs ==
    /\ fpc = "getUTXOs" /\ netState = "done"
    /\ IF netResult.kind = "throw"
       THEN Fail(netResult.error) /\ UNCHANGED <<utxos, netVars>>
       ELSE IF Len(netResult.value) = 0
       THEN /\ Fail(Err("No hay fondos disponibles en esta wallet", NoValue))
            /\ UNCHANGED <<utxos, netVars>>
       ELSE /\ utxos' = netResult.value
            /\ CallNet("getTransactionHex", netResult.value[1].txid)
            /\ fpc' = "fetch"
            /\ UNCHANGED response
    /\ UNCHANGED <<tool, args, wallet, fetched, broadcastCalls, broadcastResult>>
    /\ UNCHANGED <<selected, tx, buildError, txInfo>>
    /\ flowBuilderFrame

\* the source transaction parsed by Transaction.fromHex: the value of the
\* output the UTXO names
withSource(utxo, sourceTransactionHex) ==
    [txid |-> utxo.txid, vout |-> utxo.vout, value |-> utxo.value,
     sourceSatoshis |-> sourceTransactionHex.outputSatoshis]

\* one iteration of the loop of fetchSourceTransactions: the hex of the source
\* transaction has arrived (or getTransactionHex has thrown)
AfterGetTransactionHex ==
    /\ fpc = "fetch" /\ netState = "done"
    /\ IF netResult.kind = "throw"
       THEN /\ Fail(Err("Error al obtener transaccion fuente", netResult.error))
            /\ UNCHANGED <<fetched, netVars>>
       ELSE LET utxosWithSource ==
                    Append(fetched, withSource(utxos[Len(fetched) + 1], netResult.value))
            IN  /\ fetched' = utxosWithSource
                /\ UNCHANGED response
                /\ IF Len(utxosWithSource) < Len(utxos)
                   THEN /\ CallNet("getTransactionHex",
                                   utxos[Len(utxosWithSource) + 1].txid)
                        /\ fpc' = "fetch"
                   ELSE fpc' = "build" /\ UNCHANGED netVars
    /\ UNCHANGED <<tool, args, wallet, broadcastCalls, broadcastResult>>
    /\ UNCHANGED <<utxos, selected, tx, buildError, txInfo>>
    /\ flowBuilderFrame

\* const change = totalInput - amount - txInfo.fee, totalInput being the sum
\* of utxosWithSource.slice(0, tx.inputs.length)
reportedChange(utxosWithSource, t, amt, info) ==
    SumSeq([k \in 1..Min(Len(t.inputs), Len(utxosWithSource)) |->
               utxosWithSource[k].value]) - amt - info.fee

successResponse(t, info, payload) ==
    [success |-> TRUE, amount |-> amount, fee |-> info.fee,
     change |-> reportedChange(fetched, t, amount, info),
     inputs |-> info.inputs, outputs |-> info.outputs,
     paymentPayload |-> payload, broadcasted |-> (tool = "send_transaction")]

\* buildTransaction, getTransactionInfo and what the handler does next:
\* send_transaction calls broadcastTransaction; create_x402_payment makes the
\* payload, logs the transaction and answers; buildTransactionComplete
\* returns the transaction
HandlerBuild ==
    /\ fpc = "build"
    /\ LET r == buildTransaction([utxos |-> fetched, amount |-> amount,
                                  feeRate |-> feeRate, payToAddress |-> "payTo",
                                  changeAddress |-> NoValue])
       IN  /\ selected' = r.selected
           /\ IF ~r.ok
              THEN /\ buildError' = r.error
                   /\ Fail(Err(r.error[1], [detail |-> r.error[2]]))
                   /\ UNCHANGED <<tx, txInfo, broadcastCalls, netVars>>
              ELSE /\ tx' = r.tx
                   /\ buildError' = NoValue
                   /\ IF tool = "buildTransactionComplete"
                      THEN /\ Finish([success |-> TRUE, tx |-> r.tx])
                           /\ UNCHANGED <<txInfo, broadcastCalls, netVars>>
                      ELSE /\ txInfo' = getTransactionInfo(r.tx)
                           /\ IF stepAfterBuild(tool) = "broadcast"
                              THEN /\ broadcastCalls' = broadcastCalls + 1
                                   /\ CallNet("broadcastTransaction", toHex(r.tx))
                                   /\ fpc' = "broadcast"
                                   /\ UNCHANGED response
                              ELSE /\ Finish(successResponse(r.tx, getTransactionInfo(r.tx),
                                         createPaymentPayload(r.tx, args.network, NoValue)))
                                   /\ UNCHANGED <<broadcastCalls, netVars>>
    /\ UNCHANGED <<tool, args, wallet, fetched, broadcastResult, utxos>>
    /\ flowBuilderFrame

\* const broadcastResult = await networkClient.broadcastTransaction(txInfo.hex):
\* a result without success is thrown as 'Error al enviar transaccion', else
\* the transaction is logged and the success response returned
AfterBroadcast ==
    /\ fpc = "broadcast" /\ netState = "done"
    /\ IF netResult.kind = "throw"
       THEN Fail(netResult.error) /\ UNCHANGED broadcastResult
       ELSE /\ broadcastResult' = netResult.value
            /\ IF ~netResult.value.success
               THEN Fail(Err("Error al enviar transaccion", netResult.value.error))
               ELSE Finish(successResponse(tx, txInfo, NoValue))
    /\ UNCHANGED <<tool, args, wallet, fetched, broadcastCalls>>
    /\ UNCHANGED <<utxos, selected, tx, buildError, txInfo, netVars>>
    /\ flowBuilderFrame

\* what the remote source may answer to the request in flight
FlowResponses ==
    CASE netOp = "getUTXOs" ->
            {[status |-> 200, body |-> Listing(vs)] :
                 vs \in {<<>>, <<500>>, <<300, 500>>, <<500, 300>>}}
            \cup {[status |-> st, body |-> TextBody({})] : st \in {400, 404, 429}}
      [] netOp = "getTransactionHex" ->
            {[status |-> 200,
              body |-> SourceTx(netArg, utxos[Len(fetched) + 1].value)]}
            \cup {[status |-> st, body |-> TextBody({})] : st \in {404, 429}}
      [] netOp = "broadcastTransaction" ->
            {[status |-> 200, body |-> <<"txid">>],
             [status |-> 400, body |-> TextBody({})],
             [status |-> 429, body |-> TextBody({})],
             [status |-> 400, body |-> TextBody({"txn-already-known"})],
             [status |-> 500, body |-> TextBody({"bad-txns-inputs-spent"})]}

\* the network client advances by one attempt while the handler awaits it
FlowNetAttempt ==
    /\ fpc \in {"getUTXOs", "fetch", "broadcast"}
    /\ \E resp \in FlowResponses : NetAttempt(resp)
    /\ UNCHANGED <<builderVars, codecVars, flowVars, vaultVars, walletVars>>

NextFlow ==
    \/ HandlerStart
    \/ HandlerLoadWallet
    \/ FlowNetAttempt
    \/ AfterGetUTXOs
    \/ AfterGetTransactionHex
    \/ HandlerBuild
    \/ AfterBroadcast

SpecFlow == InitFlow /\ [][NextFlow]_vars

(***************************************************************************)
(* Claims about the tool handlers (checked under SpecFlow).                *)
(***************************************************************************)
LastResponse == history[Len(history)]

\* C9 (as claimed): a broadcast answered with an already-known error is
\* success-equivalent: the send_transaction flow that consumes it does not
\* report the send as failed.
C9_AlreadyKnownIsNotAFailure ==
    (/\ tool = "send_transaction" /\ fpc = "done"
     /\ netOp = "broadcastTransaction" /\ netState = "done"
     /\ ClassifiedAlreadyKnown(LastResponse))
    => response.success = TRUE

\* C10: building never broadcasts: create_x402_payment and
\* buildTransactionComplete (with the buildTransaction they call) finish
\* without any call of broadcastTransaction, and send_transaction calls it at
\* most once and only with a completely built and signed transaction.
C10_BuildingNeverBroadcasts ==
    /\ tool \in {"create_x402_payment", "buildTransactionComplete"}
         => broadcastCalls = 0 /\ netOp # "broadcastTransaction"
    /\ tool = "send_transaction"
         => /\ broadcastCalls <= 1
            /\ (broadcastCalls = 1 \/ netOp = "broadcastTransaction")
                 => /\ broadcastCalls = 1
                    /\ tx # NoValue /\ tx.signed
                    /\ txInfo # NoValue
                    /\ netArg = toHex(tx)

\* C10 witness: send_transaction has finished after its one broadcast
C10_Witness ==
    /\ tool = "send_transaction" /\ fpc = "done"
    /\ response.success /\ broadcastCalls = 1 /\ tx # NoValue

\* second case of C10: create_x402_payment has built a transaction and
\* answered with its payload, without broadcasting
C10_WitnessCreate ==
    /\ tool = "create_x402_payment" /\ fpc = "done"
    /\ response.success /\ tx # NoValue /\ broadcastCalls = 0

\* the value of the change output of a built transaction, 0 without one
ChangeOutput(t) == IF Len(t.outputs) >= 2 THEN t.outputs[2].satoshis ELSE 0

\* the total value of the outputs a built transaction spends
TotalInputs(t) == SumSeq([k \in 1..Len(t.inputs) |-> t.inputs[k].sourceSatoshis])

\* C28: in the success response of create_x402_payment and of
\* send_transaction, the reported change equals the value of the change
\* output of the built transaction (0 when there is none), so that amount +
\* fee + change equals the total value of the transaction's inputs, for
\* every order in which the remote source lists the wallet's UTXOs.
C28_ReportedChangeIsTheChangeOutput ==
    (/\ tool \in {"create_x402_payment", "send_transaction"}
     /\ fpc = "done" /\ response.success)
    => /\ response.change = ChangeOutput(tx)
       /\ response.amount + response.fee + response.change = TotalInputs(tx)

(***************************************************************************)
(* Secret vault: encryptWif / decryptWif of src/unnamed/part_004.          *)
(*                                                                         *)
(* scrypt and AES-256-GCM are modelled as ideal primitives: a derived key  *)
(* is the record of what it was derived from, and the authentication tag   *)
(* of a ciphertext spells out the key, the IV and the data it was computed *)
(* over, so that two tags agree only when all three do.  The fields of an  *)
(* EncryptedData record are base64 texts, converted character by           *)
(* character.                                                              *)
(***************************************************************************)
SCRYPT_PARAMS == [N |-> 32768, r |-> 8, p |-> 1, keyLen |-> 32]
ALGORITHM     == <<"a", "e", "s", "-", "2", "5", "6", "-", "g", "c", "m">>
IV_LENGTH     == 16
SALT_LENGTH   == 32
authTagLength == 16

\* the options crypto.scrypt works with when its caller passes none
scryptDefaults == [N |-> 16384, r |-> 8, p |-> 1]

\* crypto.scrypt(password, salt, keylen, options)
scrypt(password, salt, keylen, options) ==
    [password |-> password, salt |-> salt, keyLen |-> keylen,
     N |-> options.N, r |-> options.r, p |-> options.p]

\* scryptAsync(password, salt, SCRYPT_PARAMS.keyLen): no options are passed
deriveKey(password, salt) ==
    scrypt(password, salt, SCRYPT_PARAMS.keyLen, scryptDefaults)

\* the passwords of the model, and the bytes randomBytes may give
Passphrases == <<<<>>, <<"p">>, <<"q", "2">>,
                 <<"p", "a", "s", "s", "w", "o", "r", "d">>,
                 <<"p", "a", "s", "s", "w", "0", "r", "d">>>>
RandomIds   == {1, 2}
randomBytes(n, id) == [k \in 1..n |-> (id * k) % 256]

\* one byte telling the keys of the model apart
keyByte(key) ==
    (CHOOSE i \in 1..Len(Passphrases) : Passphrases[i] = key.password) * 16
        + key.salt[1] * 2 + (IF key.N = SCRYPT_PARAMS.N THEN 1 ELSE 0)

\* the CTR keystream byte for position k
keystream(key, iv, k) == (keyByte(key) * 7 + (IF iv = <<>> THEN 0 ELSE iv[1]) * 3 + k) % 256

\* the GCM tag of data under key and iv
gcmTag(key, iv, data) ==
    <<keyByte(key), Len(iv), (IF iv = <<>> THEN 0 ELSE iv[1]), Len(data)>>
        \o [k \in 1..(authTagLength - 4) |-> IF k <= Len(data) THEN data[k] ELSE 0]

\* cipher.update(text) + cipher.final(), and cipher.getAuthTag()
gcmSeal(key, iv, bytes) ==
    LET data == [k \in 1..Len(bytes) |-> (bytes[k] + keystream(key, iv, k)) % 256]
    IN  [data |-> data, authTag |-> gcmTag(key, iv, data)]

\* createDecipheriv, setAuthTag, update and final where final() does not
\* throw on a tag that does not verify and no bytes are given out
gcmOpenUnverified(key, iv, authTag, data) ==
    IF authTag # gcmTag(key, iv, data)
    THEN [ok |-> TRUE, bytes |-> <<>>]
    ELSE [ok |-> TRUE,
          bytes |-> [k \in 1..Len(data) |-> (data[k] - keystream(key, iv, k)) % 256]]

\* createDecipheriv, setAuthTag, update and final: the bytes, or the message
\* of the error thrown
gcmOpen(key, iv, authTag, data) ==
    IF Len(iv) = 0
    THEN [ok |-> FALSE, message |-> <<"I", "n", "v", "a", "l", "i", "d", " ", "i", "n", "i", "t", "i", "a", "l", "i", "z", "a", "t", "i", "o", "n", " ", "v", "e", "c", "t", "o", "r">>]
    ELSE IF Len(authTag) # authTagLength
    THEN [ok |-> FALSE, message |-> <<"I", "n", "v", "a", "l", "i", "d", " ", "a", "u", "t", "h", "e", "n", "t", "i", "c", "a", "t", "i", "o", "n", " ", "t", "a", "g", " ", "l", "e", "n", "g", "t", "h", ":", " ">> \o numberText(Len(authTag))]
    ELSE IF authTag # gcmTag(key, iv, data)
    THEN [ok |-> FALSE, message |-> 
        <<"U", "n", "s", "u", "p", "p", "o", "r", "t", "e", "d", " ", "s", "t", "a", "t", "e", " ", "o", "r", " ", "u", "n", "a", "b", "l", "e", " ", "t", "o", " ", "a", "u", "t", "h", "e", "n", "t", "i", "c", "a", "t", "e", " ", "d", "a", "t", "a">>]
    ELSE [ok |-> TRUE,
          bytes |-> [k \in 1..Len(data) |-> (data[k] - keystream(key, iv, k)) % 256]]

\* String.prototype.trim, for texts whose only white space is the blank
RECURSIVE trimStart(_)
trimStart(text) ==
    IF text # <<>> /\ Head(text) = " " THEN trimStart(Tail(text)) ELSE text

RECURSIVE trim(_)
trim(text) ==
    LET t == trimStart(text)
    IN  IF t # <<>> /\ t[Len(t)] = " " THEN trim(SubSeq(t, 1, Len(t) - 1)) ELSE t

\* String.prototype.includes
includes(text, word) ==
    \E i \in 1..(Len(text) - Len(word) + 1) : SubSeq(text, i, i + Len(word) - 1) = word

\* encryptWif encrypting the trimmed text it validated
encryptWifTrimmed(wif, password, salt, iv) ==
    IF wif = <<>> \/ Len(trim(wif)) = 0
    THEN [ok |-> FALSE, derived |-> <<>>,
          error |-> <<"Error al encriptar WIF", "WIF no puede estar vacio">>]
    ELSE IF password = <<>>
    THEN [ok |-> FALSE, derived |-> <<>>,
          error |-> <<"Error al encriptar WIF", "Password no puede estar vacio">>]
    ELSE LET key == deriveKey(password, salt)
             c   == gcmSeal(key, iv, utf8Bytes(trim(wif)))
         IN  [ok |-> TRUE, derived |-> <<key>>,
              value |-> [algorithm |-> ALGORITHM,
                         salt      |-> toBase64(salt),
                         iv        |-> toBase64(iv),
                         authTag   |-> toBase64(c.authTag),
                         data      |-> toBase64(c.data)]]

\* encryptWif(wif, password) when randomBytes gives salt and iv
encryptWif(wif, password, salt, iv) ==
    IF wif = <<>> \/ Len(trim(wif)) = 0
    THEN [ok |-> FALSE, derived |-> <<>>,
          error |-> <<"Error al encriptar WIF", "WIF no puede estar vacio">>]
    ELSE IF password = <<>>
    THEN [ok |-> FALSE, derived |-> <<>>,
          error |-> <<"Error al encriptar WIF", "Password no puede estar vacio">>]
    ELSE LET key == deriveKey(password, salt)
             c   == gcmSeal(key, iv, utf8Bytes(wif))
         IN  [ok |-> TRUE, derived |-> <<key>>,
              value |-> [algorithm |-> ALGORITHM,
                         salt      |-> toBase64(salt),
                         iv        |-> toBase64(iv),
                         authTag   |-> toBase64(c.authTag),
                         data      |-> toBase64(c.data)]]

\* the catch block of decryptWif: the error it throws for a caught message
decryptError(message) ==
    IF \/ includes(message, <<"U", "n", "s", "u", "p", "p", "o", "r", "t", "e", "d", " ", "s", "t", "a", "t", "e">>)
       \/ includes(message, <<"a", "u", "t", "h">>)
       \/ includes(message, <<"T", "A", "G">>)
    THEN [ok |-> FALSE, derived |-> <<>>,
          error |-> <<"Password incorrecto o datos corruptos">>]
    ELSE [ok |-> FALSE, derived |-> <<>>,
          error |-> <<"Error al desencriptar WIF", message>>]

decryptWif(encrypted, password) ==
    IF encrypted.algorithm # ALGORITHM
    THEN decryptError(<<"A", "l", "g", "o", "r", "i", "t", "m", "o", " ", "n", "o", " ", "s", "o", "p", "o", "r", "t", "a", "d", "o", ":", " ">> \o encrypted.algorithm)
    ELSE LET salt    == fromBase64(encrypted.salt)
             iv      == fromBase64(encrypted.iv)
             authTag == fromBase64(encrypted.authTag)
             data    == fromBase64(encrypted.data)
             key     == deriveKey(password, salt)
             plain   == gcmOpen(key, iv, authTag, data)
         IN  IF plain.ok
             THEN [ok |-> TRUE, derived |-> <<key>>, value |-> utf8Text(plain.bytes)]
             ELSE [decryptError(plain.message) EXCEPT !.derived = <<key>>]

(***************************************************************************)
(* Inputs of the vault.                                                    *)
(***************************************************************************)
MaxCycles == 1      \* encrypt/decrypt cycles after the first

Secrets == {<<>>, <<" ">>, <<"K">>, <<" ", "L">>, <<"5", "J">>}

\* algorithm tags a kept record may carry instead of aes-256-gcm
OtherAlgorithms ==
    {<<"a", "e", "s", "-", "1", "2", "8", "-", "c", "b", "c">>,
     <<"a", "e", "s", "-", "2", "5", "6", "-", "g", "c", "m", "-", "a", "u", "t", "h">>,
     <<"A", "E", "S", "-", "2", "5", "6", "-", "G", "C", "M">>,
     <<"T", "A", "G">>,
     <<>>}

\* what a base64 field may be changed into: one character replaced by the
\* one whose value differs by d (its lowest or its highest bit flipped), or
\* the last four characters cut off
alterations(text) ==
    LET replaceChar(k, d) == [text EXCEPT ![k] = b64Char((b64Value(text[k]) + d) % 64)]
    IN  {replaceChar(k, d) : k \in {j \in 1..Len(text) : text[j] # "="}, d \in {1, 32}}
            \cup (IF Len(text) > 4 THEN {SubSeq(text, 1, Len(text) - 4)} ELSE {})

InitVault ==
    /\ vpc = "start"
    /\ secret \in Secrets
    /\ passphrase \in {Passphrases[i] : i \in 1..Len(Passphrases)}
    /\ sealed = NoValue /\ block = NoValue /\ decryptPass = NoValue /\ opened = NoValue
    /\ kdfCalls = <<>> /\ cycles = 0
    /\ builderIdle /\ codecIdle /\ netIdle /\ flowIdle /\ walletIdle

scryptCalls(derived) ==
    [k \in 1..Len(derived) |->
        [N |-> derived[k].N, r |-> derived[k].r, p |-> derived[k].p,
         keyLen |-> derived[k].keyLen]]

CallEncryptWif ==
    /\ vpc = "start"
    /\ \E saltId \in RandomIds, ivId \in RandomIds :
          LET result == encryptWif(secret, passphrase, randomBytes(SALT_LENGTH, saltId),
                                   randomBytes(IV_LENGTH, ivId))
          IN  /\ sealed' = result
              /\ block' = IF result.ok THEN result.value ELSE NoValue
              /\ kdfCalls' = kdfCalls \o scryptCalls(result.derived)
              /\ vpc' = IF result.ok THEN "kept" ELSE "failed"
    /\ UNCHANGED <<secret, passphrase, decryptPass, opened, cycles>>
    /\ UNCHANGED <<builderVars, codecVars, netVars, flowVars, walletVars>>

\* the kept record is changed behind the vault's back: one of its fields
\* algorithm, data or authTag is replaced
AlterBlock ==
    /\ vpc = "kept" /\ block = sealed.value
    /\ \/ \E a \in OtherAlgorithms : block' = [block EXCEPT !.algorithm = a]
       \/ \E t \in alterations(block.data) : block' = [block EXCEPT !.data = t]
       \/ \E t \in alterations(block.authTag) : block' = [block EXCEPT !.authTag = t]
    /\ UNCHANGED <<vpc, secret, passphrase, sealed, decryptPass, opened, kdfCalls, cycles>>
    /\ UNCHANGED <<builderVars, codecVars, netVars, flowVars, walletVars>>

CallDecryptWif ==
    /\ vpc = "kept"
    /\ \E i \in 1..Len(Passphrases) :
          LET result == decryptWif(block, Passphrases[i])
          IN  /\ decryptPass' = Passphrases[i]
              /\ opened' = result
              /\ kdfCalls' = kdfCalls \o scryptCalls(result.derived)
    /\ vpc' = "opened"
    /\ UNCHANGED <<secret, passphrase, sealed, block, cycles>>
    /\ UNCHANGED <<builderVars, codecVars, netVars, flowVars, walletVars>>

\* a further cycle: what was decrypted is encrypted again
NextCycle ==
    /\ vpc = "opened" /\ opened.ok /\ cycles < MaxCycles
    /\ secret' = opened.value
    /\ cycles' = cycles + 1
    /\ vpc' = "start"
    /\ sealed' = NoValue /\ block' = NoValue /\ decryptPass' = NoValue /\ opened' = NoValue
    /\ UNCHANGED <<passphrase, kdfCalls>>
    /\ UNCHANGED <<builderVars, codecVars, netVars, flowVars, walletVars>>

NextVault == CallEncryptWif \/ AlterBlock \/ CallDecryptWif \/ NextCycle

SpecVault == InitVault /\ [][NextVault]_vars

(***************************************************************************)
(* Claims about the vault (checked under SpecVault).                       *)
(***************************************************************************)
AuthenticationFailed(result) ==
    /\ ~result.ok
    /\ "value" \notin DOMAIN result
    /\ result.error = <<"Password incorrecto o datos corruptos">>

\* the kept record still names the algorithm it was made with
AlgorithmKept == block.algorithm = sealed.value.algorithm

\* C17 (amended): decryptWif called with a passphrase different from the one
\* used to encrypt, or on a record whose data or authTag decode to other
\* bytes than those encryptWif produced, fails with the error 'Password
\* incorrecto o datos corruptos' and returns no string.
C17_WrongPassphraseOrAlteredBytesFail ==
    (/\ vpc = "opened" /\ AlgorithmKept
     /\ \/ decryptPass # passphrase
        \/ fromBase64(block.data) # fromBase64(sealed.value.data)
        \/ fromBase64(block.authTag) # fromBase64(sealed.value.authTag))
    => AuthenticationFailed(opened)

\* C17 witness: the right passphrase was given for a record whose data text
\* had its first character replaced
C17_Witness ==
    /\ vpc = "opened" /\ AlgorithmKept /\ decryptPass = passphrase
    /\ block.data[1] # sealed.value.data[1]
    /\ AuthenticationFailed(opened)

\* a second case of C17: a wrong passphrase on an untouched record
C17_WitnessWrongPassphrase ==
    /\ vpc = "opened" /\ block = sealed.value
    /\ decryptPass = <<"q", "2">> /\ passphrase = <<"p">>
    /\ AuthenticationFailed(opened)

\* a third case of C17: an authTag cut to 15 bytes
C17_WitnessShortTag ==
    /\ vpc = "opened" /\ AlgorithmKept /\ decryptPass = passphrase
    /\ Len(fromBase64(block.authTag)) = 15
    /\ AuthenticationFailed(opened)

\* C17 (as claimed): decryptWif called with a passphrase different from the
\* one used to encrypt, or on a record whose data or authTag has been
\* altered, fails with the authentication-failure error and returns no string.
C17_WrongPassphraseOrAlteredFieldFail ==
    (/\ vpc = "opened" /\ AlgorithmKept
     /\ \/ decryptPass # passphrase
        \/ block.data # sealed.value.data
        \/ block.authTag # sealed.value.authTag)
    => AuthenticationFailed(opened)

\* the secret and the passphrase encryptWif accepts
ValidPair == Len(trim(secret)) > 0 /\ Len(passphrase) > 0

\* C18: for every secret that is not empty or whitespace-only and every
\* non-empty passphrase, decryptWif(encryptWif(secret, passphrase), passphrase)
\* returns exactly secret, in the first cycle and in every later one;
\* encryptWif fails when the secret or the passphrase is empty.
C18_RoundTripReturnsSecret ==
    /\ vpc \in {"kept", "failed", "opened"} =>
          /\ sealed.ok <=> ValidPair
          /\ ~sealed.ok => /\ vpc = "failed"
                           /\ sealed.error[1] = "Error al encriptar WIF"
                           /\ "value" \notin DOMAIN sealed
    /\ (vpc = "opened" /\ block = sealed.value /\ decryptPass = passphrase) =>
          /\ opened.ok
          /\ opened.value = secret

\* C18 witness: a secret with a leading blank came back whole from the
\* second cycle
C18_Witness ==
    /\ vpc = "opened" /\ block = sealed.value /\ decryptPass = passphrase
    /\ cycles = 1
    /\ secret = <<" ", "L">>
    /\ opened.ok /\ opened.value = <<" ", "L">>

\* a second case of C18: encryptWif refused a whitespace-only secret
C18_WitnessBlankSecret ==
    /\ vpc = "failed" /\ secret = <<" ">> /\ passphrase = <<"p">>
    /\ sealed.error = <<"Error al encriptar WIF", "WIF no puede estar vacio">>

\* a third case of C18: encryptWif refused an empty passphrase
C18_WitnessEmptyPassphrase ==
    /\ vpc = "failed" /\ secret = <<"K">> /\ passphrase = <<>>
    /\ sealed.error = <<"Error al encriptar WIF", "Password no puede estar vacio">>

UnsupportedAlgorithm(result, algorithm) ==
    /\ ~result.ok
    /\ result.error = <<"Error al desencriptar WIF",
                        <<"A", "l", "g", "o", "r", "i", "t", "m", "o", " ", "n", "o", " ",
                          "s", "o", "p", "o", "r", "t", "a", "d", "o", ":", " ">> \o algorithm>>

\* C19: decryptWif fails with the unsupported-algorithm error, and never with
\* the authentication-failure error, for every record whose algorithm tag is
\* not 'aes-256-gcm', whatever the text of that tag is.
C19_UnsupportedAlgorithmError ==
    (vpc = "opened" /\ block.algorithm # ALGORITHM) =>
        /\ UnsupportedAlgorithm(opened, block.algorithm)
        /\ ~AuthenticationFailed(opened)

\* C20: every key derivation performed by encryptWif and decryptWif invokes
\* scrypt with N = 32768, r = 8, p = 1 and an output length of 32 bytes, and
\* encryption and decryption use the same parameters.
C20_PublishedCostParameters ==
    /\ \A k \in 1..Len(kdfCalls) :
          kdfCalls[k] = [N |-> 32768, r |-> 8, p |-> 1, keyLen |-> 32]
    /\ \A j, k \in 1..Len(kdfCalls) : kdfCalls[j] = kdfCalls[k]

(***************************************************************************)
(* Wallet record store (src/src/wallet/storage.ts) and WalletManager       *)
(* (src/src/wallet/manager.ts).                                            *)
(*                                                                         *)
(* The wallets directory holds one file per wallet id; a file is           *)
(* [mode, text], its text a sequence of characters.  JSON.stringify(x,     *)
(* null, 2) differs from the compact form only by white space that         *)
(* JSON.parse skips, so the compact text stands for it.  A mode is the     *)
(* number of its nine permission bits.                                     *)
(***************************************************************************)
mode0700 == 448
mode0600 == 384

\* the property names of WalletData and EncryptedData
WalletKeys ==
    [version |-> <<"v", "e", "r", "s", "i", "o", "n">>, id |-> <<"i", "d">>, name |-> <<"n", "a", "m", "e">>,
     network |-> <<"n", "e", "t", "w", "o", "r", "k">>, address |-> <<"a", "d", "d", "r", "e", "s", "s">>,
     createdAt |-> <<"c", "r", "e", "a", "t", "e", "d", "A", "t">>, encrypted |-> <<"e", "n", "c", "r", "y", "p", "t", "e", "d">>,
     algorithm |-> <<"a", "l", "g", "o", "r", "i", "t", "h", "m">>, salt |-> <<"s", "a", "l", "t">>, iv |-> <<"i", "v">>,
     authTag |-> <<"a", "u", "t", "h", "T", "a", "g">>, data |-> <<"d", "a", "t", "a">>]

\* the required fields of a record, in the order createWallet writes them
WalletFields == <<"version", "id", "name", "network", "address", "createdAt", "encrypted">>

\* the EncryptedData object as a JSON value, and back for a valid shape
blockJson(enc) ==
    JObj(<<Member(WalletKeys.algorithm, JStr(enc.algorithm)),
           Member(WalletKeys.salt, JStr(enc.salt)),
           Member(WalletKeys.iv, JStr(enc.iv)),
           Member(WalletKeys.authTag, JStr(enc.authTag)),
           Member(WalletKeys.data, JStr(enc.data))>>)

\* publicKey.toAddress(network === 'testnet' ? 'testnet' : undefined) of the
\* key PrivateKey.fromWif(wif): one address per key and network
addressOf(wif, net) == (IF net = <<"t", "e", "s", "t", "n", "e", "t">> THEN <<"m">> ELSE <<"1">>) \o wif

\* the WalletData object createWallet and importWallet build
walletData(id, name, net, wif, createdAt, encrypted) ==
    JObj(<<Member(WalletKeys.version, JStr(<<"1", ".", "0">>)),
           Member(WalletKeys.id, JStr(id)),
           Member(WalletKeys.name, JStr(name)),
           Member(WalletKeys.network, JStr(net)),
           Member(WalletKeys.address, JStr(addressOf(wif, net))),
           Member(WalletKeys.createdAt, JStr(createdAt)),
           Member(WalletKeys.encrypted, blockJson(encrypted))>>)

\* typeof value === 'string'
isString(val) == val.t = "str"

validateEncryptedData(encrypted) ==
    IF ~truthy(encrypted) \/ encrypted.t # "obj"
    THEN FALSE
    ELSE /\ strictlyEquals(getProp(encrypted, WalletKeys.algorithm), "str", ALGORITHM)
         /\ isString(getProp(encrypted, WalletKeys.salt))
         /\ isString(getProp(encrypted, WalletKeys.iv))
         /\ isString(getProp(encrypted, WalletKeys.authTag))
         /\ isString(getProp(encrypted, WalletKeys.data))

\* storage.loadWallet(walletId) on the files fs
loadWallet(fs, walletId) ==
    LET check(parsed) ==
            IF ~parsed.ok
            THEN Throw(<<"Error al cargar wallet", "SyntaxError">>)
            ELSE IF parsed.val.t = "null"
            THEN Throw(<<"Error al cargar wallet", "TypeError">>)
            ELSE IF \/ ~truthy(getProp(parsed.val, WalletKeys.id))
                    \/ ~truthy(getProp(parsed.val, WalletKeys.encrypted))
                    \/ ~truthy(getProp(parsed.val, WalletKeys.address))
            THEN Throw(<<"Error al cargar wallet", "Archivo de wallet corrupto o invalido">>)
            ELSE Return(parsed.val)
    IN  IF fs[walletId] = NoValue
        THEN Throw(<<"Wallet no encontrada">>)
        ELSE CHOOSE result \in {check(parsed) : parsed \in {JSONparse(fs[walletId].text)}} : TRUE

\* new Date(createdAt).getTime() for the creation times of the model, texts
\* of four digits (a year); anything else is no date (NaN)
dateTime(createdAt) ==
    IF createdAt.t = "str" /\ Len(createdAt.v) = 4
       /\ \A k \in 1..4 : createdAt.v[k] \in DigitSet
    THEN [nan |-> FALSE, ms |-> parseDigits(createdAt.v, 1, 0).val]
    ELSE [nan |-> TRUE]

\* the comparator of listWallets is positive: b was created after a
createdAfter(b, a) ==
    LET tb == dateTime(b.createdAt)
        ta == dateTime(a.createdAt)
    IN  ~tb.nan /\ ~ta.nan /\ tb.ms - ta.ms > 0

\* wallets.sort(comparator): a stable insertion of each entry before the
\* first one it was created after
RECURSIVE sortByCreation(_)
sortByCreation(wallets) ==
    IF Len(wallets) <= 1 THEN wallets
    ELSE LET rest == sortByCreation(SubSeq(wallets, 1, Len(wallets) - 1))
             last == wallets[Len(wallets)]
             ahead == {k \in 1..Len(rest) : createdAfter(last, rest[k])}
             at == IF ahead = {} THEN Len(rest) + 1
                   ELSE CHOOSE k \in ahead : \A j \in ahead : k <= j
         IN  SubSeq(rest, 1, at - 1) \o <<last>> \o SubSeq(rest, at, Len(rest))

\* storage.listWallets() on the files fs, read in the order readdir gives
listWallets(fs, order) ==
    LET metadata(parsed) ==
            IF ~parsed.ok \/ parsed.val.t = "null"
            THEN <<>>
            ELSE <<[id        |-> getProp(parsed.val, WalletKeys.id),
                    name      |-> getProp(parsed.val, WalletKeys.name),
                    address   |-> getProp(parsed.val, WalletKeys.address),
                    network   |-> getProp(parsed.val, WalletKeys.network),
                    createdAt |-> getProp(parsed.val, WalletKeys.createdAt)]>>
        entry(id) ==
            IF fs[id] = NoValue THEN <<>>
            ELSE CHOOSE m \in {metadata(parsed) : parsed \in {JSONparse(fs[id].text)}} : TRUE
        RECURSIVE walk(_)
        walk(k) == IF k > Len(order) THEN <<>> ELSE entry(order[k]) \o walk(k + 1)
    IN  Return(sortByCreation(walk(1)))

\* `${value}` in a template literal
templateText(val) ==
    CASE val.t = "str" -> val.v
      [] val.t = "num" -> numberText(val.v)
      [] OTHER         -> <<"u", "n", "d", "e", "f", "i", "n", "e", "d">>

\* decryptWif(wallet.encrypted, password) on whatever the loaded record holds
\* under encrypted: a block of another algorithm is refused, a field that is
\* no string makes Buffer.from throw a TypeError
decryptStored(encrypted, password) ==
    LET field(name) == getProp(encrypted, WalletKeys[name])
    IN  IF ~strictlyEquals(field("algorithm"), "str", ALGORITHM)
        THEN decryptError(<<"A", "l", "g", "o", "r", "i", "t", "m", "o", " ", "n", "o", " ", "s", "o", "p", "o", "r", "t", "a", "d", "o", ":", " ">> \o templateText(field("algorithm")))
        ELSE IF \E name \in {"salt", "iv", "authTag", "data"} : ~isString(field(name))
        THEN decryptError(<<"T", "h", "e", " ", "f", "i", "r", "s", "t", " ", "a", "r", "g", "u", "m", "e", "n", "t", " ", "m", "u", "s", "t", " ", "b", "e", " ", "o", "f", " ", "t", "y", "p", "e", " ", "s", "t", "r", "i", "n", "g">>)
        ELSE decryptWif([algorithm |-> field("algorithm").v, salt |-> field("salt").v,
                         iv |-> field("iv").v, authTag |-> field("authTag").v,
                         data |-> field("data").v], password)

\* object[key] = value: the member is replaced where it stands, or added last
setProp(obj, key, val) ==
    IF \E k \in 1..Len(obj.v) : obj.v[k].k = key
    THEN JObj([k \in 1..Len(obj.v) |-> IF obj.v[k].k = key THEN Member(key, val) ELSE obj.v[k]])
    ELSE JObj(Append(obj.v, Member(key, val)))

\* the prefix each WalletManager method puts before the message it rethrows
managerPrefix(name) ==
    CASE name = "loadWallet"     -> "Error al cargar wallet"
      [] name = "exportWif"      -> "Error al exportar WIF"
      [] name = "removeWallet"   -> "Error al eliminar wallet"
      [] name = "changePassword" -> "Error al cambiar password"
      [] name = "importWallet"   -> "Error al importar wallet"

\* the text saveWallet writes for a record: JSON.stringify(wallet, null, 2)
walletJson(record) == stringifyPretty(record, 0)

\* the minimum length createWallet, importWallet and changePassword ask of a password
minPasswordLength == 8

(***************************************************************************)
(* Inputs of the store.                                                    *)
(***************************************************************************)
WalletIds == {<<"a">>, <<"b">>}

\* the order in which readdir lists the record files
readdir == <<<<"a">>, <<"b">>>>

FileModes == {mode0600, 420}    \* 0600, and 0644 as an external tool may set it
DirModes  == {mode0700, 493}    \* 0700, and 0755

\* what encryptWif gives for the randomBytes outcome id
sealedWith(wif, password, id) ==
    encryptWif(wif, password, randomBytes(SALT_LENGTH, id), randomBytes(IV_LENGTH, id)).value

\* the record a wallet made by this program has on disk
goodRecord(id, createdAt) ==
    walletData(id, <<"w">>, <<"m", "a", "i", "n", "n", "e", "t">>, <<"K">>, createdAt,
               sealedWith(<<"K">>, <<"p", "a", "s", "s", "w", "o", "r", "d">>, 1))

\* the texts the file of wallet a may hold: the record the program wrote, a
\* record with one field left out, with the address of another key, with a
\* creation time that is no date, with an encrypted block of another shape,
\* and texts that are no record at all
StoredTexts ==
    LET good == goodRecord(<<"a">>, <<"2", "0", "2", "4">>)
        without(field) == JObj(SelectSeq(good.v, LAMBDA m : m.k # WalletKeys[field]))
        enc == getProp(good, WalletKeys.encrypted)
        blocks == {JStr(<<"x">>),
                   JObj(SelectSeq(enc.v, LAMBDA m : m.k # WalletKeys.data)),
                   setProp(enc, WalletKeys.algorithm, JStr(<<"a", "e", "s", "-", "1", "2", "8", "-", "c", "b", "c">>))}
    IN  {walletJson(good)}
        \cup {walletJson(without(WalletFields[k])) : k \in 1..Len(WalletFields)}
        \cup {walletJson(setProp(good, WalletKeys.address, JStr(addressOf(<<"L">>, <<"m", "a", "i", "n", "n", "e", "t">>)))),
              walletJson(setProp(good, WalletKeys.createdAt, JStr(<<"s", "o", "o", "n">>)))}
        \cup {walletJson(setProp(good, WalletKeys.encrypted, b)) : b \in blocks}
        \cup {<<>>, <<"{">>, <<"n", "u", "l", "l">>, <<"5">>}

\* the file of wallet a, and the file of wallet b beside it
FilesOfA ==
    {NoValue} \cup {[mode |-> mode0600, text |-> t] : t \in StoredTexts}
        \cup {[mode |-> m, text |-> walletJson(goodRecord(<<"a">>, <<"2", "0", "2", "4">>))] : m \in FileModes}
FilesOfB ==
    {NoValue, [mode |-> mode0600, text |-> <<"{">>]}
        \cup {[mode |-> mode0600, text |-> walletJson(goodRecord(<<"b">>, c))] :
                 c \in {<<"2", "0", "2", "3">>, <<"2", "0", "2", "5">>}}

\* the operations of the model on wallet a, with the passwords they are given
StoreOps ==
    LET op(name, password, newPassword) ==
            [name |-> name, id |-> <<"a">>, password |-> password, newPassword |-> newPassword]
        right == <<"p", "a", "s", "s", "w", "o", "r", "d">>
        other == <<"p", "a", "s", "s", "w", "0", "r", "d">>
    IN  {op(n, <<>>, <<>>) : n \in {"storage.loadWallet", "listWallets"}}
        \cup {op(n, p, <<>>) : n \in {"loadWallet", "exportWif", "removeWallet"},
                                  p \in {right, other}}
        \cup {op("removeWallet", <<>>, <<>>), op("importWallet", right, <<>>),
              op("importWallet", <<"q", "2">>, <<>>)}
        \cup {op("changePassword", p, n) : p \in {right, other},
                                           n \in {right, other, <<"q", "2">>}}

InitStore ==
    /\ sop \in StoreOps
    /\ spc = "start"
    /\ dirMode \in {NoValue} \cup {[mode |-> m] : m \in DirModes}
    /\ files \in [WalletIds -> FilesOfA \cup FilesOfB]
    /\ files[<<"a">>] \in FilesOfA /\ files[<<"b">>] \in FilesOfB
    /\ dirMode = NoValue => \A id \in WalletIds : files[id] = NoValue
    /\ sop.name = "importWallet" => files[<<"a">>] = NoValue
    /\ original = files
    /\ pending = NoValue /\ decryptCalls = <<>> /\ sresult = NoValue
    /\ observed = NoValue /\ warnings = <<>>
    /\ builderIdle /\ codecIdle /\ netIdle /\ flowIdle /\ vaultIdle
    /\ logIdle /\ toolIdle

\* what ensureWalletsDir and saveWallet log when a chmod is refused
dirWarning  == "Advertencia: No se pudieron establecer permisos del directorio"
fileWarning == "Advertencia: No se pudieron establecer permisos del archivo"

\* ensureWalletsDir() that creates a missing directory and leaves an existing
\* one as it finds it
ensureWalletsDirCreateOnly(dir, chmodWorks) ==
    IF dir = NoValue THEN [mode |-> [mode |-> mode0700], warned |-> <<>>]
    ELSE [mode |-> dir, warned |-> <<>>]

\* ensureWalletsDir() on the directory dir (NoValue when absent): mkdir with mode
\* 0700, or chmod to 0700, whose refusal is logged and not rethrown
ensureWalletsDir(dir, chmodWorks) ==
    IF dir = NoValue THEN [mode |-> [mode |-> mode0700], warned |-> <<>>]
    ELSE IF chmodWorks THEN [mode |-> [mode |-> mode0700], warned |-> <<>>]
    ELSE [mode |-> dir, warned |-> <<dirWarning>>]

\* loadWallet(walletId) followed by decryptWif(wallet.encrypted, password), as
\* WalletManager's loadWallet, exportWif, removeWallet and changePassword do:
\* the record, the blocks handed to decryptWif and what decryptWif gave
unlock(fs, walletId, password) ==
    LET open(w) ==
            IF w.kind = "throw"
            THEN [wallet |-> w, calls |-> <<>>, wif |-> NoValue]
            ELSE [wallet |-> w,
                  calls  |-> <<getProp(w.value, WalletKeys.encrypted)>>,
                  wif    |-> decryptStored(getProp(w.value, WalletKeys.encrypted), password)]
    IN  CHOOSE r \in {open(w) : w \in {loadWallet(fs, walletId)}} : TRUE

\* the error a WalletManager method throws when unlock did not give the key
unlockError(name, u) ==
    Throw(<<managerPrefix(name)>>
            \o (IF u.wallet.kind = "throw" THEN u.wallet.error ELSE u.wif.error))

\* changePassword that also stamps the record with the time of the change
reencryptStamped(record, wif, newPassword, id) ==
    setProp(setProp(record, WalletKeys.encrypted,
                    blockJson(sealedWith(wif, newPassword, id))),
            WalletKeys.createdAt, JStr(<<"2", "0", "2", "5">>))

\* changePassword, once the key is decrypted: the key is encrypted under the
\* new password and the block replaces wallet.encrypted
reencrypt(record, wif, newPassword, id) ==
    setProp(record, WalletKeys.encrypted, blockJson(sealedWith(wif, newPassword, id)))

storeFrame == UNCHANGED <<builderVars, codecVars, netVars, flowVars, vaultVars,
                          logVars, toolVars>>

\* storage.loadWallet(id), called on its own
CallLoadWallet ==
    /\ spc = "start" /\ sop.name = "storage.loadWallet"
    /\ sresult' = loadWallet(files, sop.id)
    /\ spc' = "done"
    /\ UNCHANGED <<sop, dirMode, files, original, pending, decryptCalls, observed, warnings>>
    /\ storeFrame

\* storage.listWallets()
CallListWallets ==
    /\ spc = "start" /\ sop.name = "listWallets"
    /\ \E chmodWorks \in BOOLEAN :
          LET dir == ensureWalletsDir(dirMode, chmodWorks)
          IN  /\ dirMode' = dir.mode
              /\ warnings' = warnings \o dir.warned
    /\ sresult' = listWallets(files, readdir)
    /\ spc' = "done"
    /\ UNCHANGED <<sop, files, original, pending, decryptCalls, observed>>
    /\ storeFrame

\* WalletManager.loadWallet, exportWif and removeWallet
CallManagerRead ==
    /\ spc = "start" /\ sop.name \in {"loadWallet", "exportWif", "removeWallet"}
    /\ IF sop.name = "removeWallet" /\ sop.password = <<>>
       THEN \* no password given: deleteWallet alone
            /\ decryptCalls' = decryptCalls
            /\ IF files[sop.id] = NoValue
               THEN /\ sresult' = Throw(<<managerPrefix(sop.name), "Wallet no encontrada">>)
                    /\ files' = files
               ELSE /\ sresult' = Return(NoValue)
                    /\ files' = [files EXCEPT ![sop.id] = NoValue]
       ELSE \E u \in {unlock(files, sop.id, sop.password)} :
               /\ decryptCalls' = decryptCalls \o u.calls
               /\ IF u.wallet.kind = "throw" \/ ~u.wif.ok
                  THEN sresult' = unlockError(sop.name, u) /\ files' = files
                  ELSE CASE sop.name = "loadWallet" ->
                               /\ sresult' = Return(
                                     [id         |-> getProp(u.wallet.value, WalletKeys.id),
                                      name       |-> getProp(u.wallet.value, WalletKeys.name),
                                      network    |-> getProp(u.wallet.value, WalletKeys.network),
                                      address    |-> getProp(u.wallet.value, WalletKeys.address),
                                      privateKey |-> u.wif.value,
                                      publicKey  |-> <<"public key of", u.wif.value>>])
                               /\ files' = files
                         [] sop.name = "exportWif" ->
                               sresult' = Return(u.wif.value) /\ files' = files
                         [] sop.name = "removeWallet" ->
                               /\ sresult' = Return(NoValue)
                               /\ files' = [files EXCEPT ![sop.id] = NoValue]
    /\ spc' = "done"
    /\ UNCHANGED <<sop, dirMode, original, pending, observed, warnings>>
    /\ storeFrame

\* importWallet up to its call of saveWallet: the record is built with the
\* address of the key and the time of the clock
CallImportWallet ==
    /\ spc = "start" /\ sop.name = "importWallet"
    /\ IF Len(sop.password) < minPasswordLength
       THEN /\ sresult' = Throw(<<managerPrefix(sop.name),
                                  "El password debe tener al menos 8 caracteres">>)
            /\ spc' = "done" /\ pending' = pending
       ELSE /\ \E id \in RandomIds :
                  pending' = walletData(sop.id, <<"w">>, <<"t", "e", "s", "t", "n", "e", "t">>, <<"L">>, <<"2", "0", "2", "5">>,
                                        sealedWith(<<"L">>, sop.password, id))
            /\ spc' = "ensureDir" /\ sresult' = sresult
    /\ UNCHANGED <<sop, dirMode, files, original, decryptCalls, observed, warnings>>
    /\ storeFrame

\* changePassword up to its call of saveWallet
CallChangePassword ==
    /\ spc = "start" /\ sop.name = "changePassword"
    /\ IF Len(sop.newPassword) < minPasswordLength
       THEN /\ sresult' = Throw(<<managerPrefix(sop.name),
                                  "El nuevo password debe tener al menos 8 caracteres">>)
            /\ spc' = "done" /\ UNCHANGED <<pending, decryptCalls>>
       ELSE \E u \in {unlock(files, sop.id, sop.password)} :
               /\ decryptCalls' = decryptCalls \o u.calls
               /\ IF u.wallet.kind = "throw" \/ ~u.wif.ok
                  THEN /\ sresult' = unlockError(sop.name, u)
                       /\ spc' = "done" /\ pending' = pending
                  ELSE \E id \in RandomIds :
                          /\ pending' = reencrypt(u.wallet.value, u.wif.value,
                                                  sop.newPassword, id)
                          /\ spc' = "ensureDir" /\ sresult' = sresult
    /\ UNCHANGED <<sop, dirMode, files, original, observed, warnings>>
    /\ storeFrame

\* saveWallet, first await: ensureWalletsDir()
SaveEnsureDir ==
    /\ spc = "ensureDir"
    /\ \E chmodWorks \in BOOLEAN :
          LET dir == ensureWalletsDir(dirMode, chmodWorks)
          IN  /\ dirMode' = dir.mode
              /\ warnings' = warnings \o dir.warned
    /\ spc' = "open"
    /\ UNCHANGED <<sop, files, original, pending, decryptCalls, sresult, observed>>
    /\ storeFrame

\* the path saveWallet writes to: the file named by the id of the record
savedId == getProp(pending, WalletKeys.id).v

\* fs.writeFile opens the file: it is created with mode 0600, or an existing
\* file is cut to length 0 and keeps its mode
SaveOpen ==
    /\ spc = "open"
    /\ files' = [files EXCEPT ![savedId] =
                    [mode |-> IF files[savedId] = NoValue THEN mode0600
                              ELSE files[savedId].mode,
                     text |-> <<>>]]
    /\ spc' = "write"
    /\ UNCHANGED <<sop, dirMode, original, pending, decryptCalls, sresult, observed,
                   warnings>>
    /\ storeFrame

\* fs.writeFile writes the text: all that is left of it, or, when the system
\* takes fewer bytes than it was given, the first half before the rest
SaveWrite ==
    /\ spc = "write"
    /\ \E json \in {walletJson(pending)} :
          \E n \in {Len(json), Len(json) \div 2} :
             /\ n > Len(files[savedId].text)
             /\ files' = [files EXCEPT ![savedId].text = SubSeq(json, 1, n)]
             /\ spc' = IF n = Len(json) THEN "chmod" ELSE "write"
    /\ UNCHANGED <<sop, dirMode, original, pending, decryptCalls, sresult, observed,
                   warnings>>
    /\ storeFrame

\* fs.chmod(walletPath, 0o600), whose refusal is logged and not rethrown;
\* saveWallet and the method that called it then return
SaveChmod ==
    /\ spc = "chmod"
    /\ \E chmodWorks \in BOOLEAN :
          IF chmodWorks
          THEN /\ files' = [files EXCEPT ![savedId].mode = mode0600]
               /\ warnings' = warnings
          ELSE /\ files' = files
               /\ warnings' = Append(warnings, fileWarning)
    /\ sresult' = Return(NoValue)
    /\ spc' = "done"
    /\ UNCHANGED <<sop, dirMode, original, pending, decryptCalls, observed>>
    /\ storeFrame

\* another request reads the store while saveWallet runs: storage.loadWallet
\* of the same id, and listWallets
Observe ==
    /\ spc \in {"ensureDir", "open", "write", "chmod"} /\ observed = NoValue
    /\ \E chmodWorks \in BOOLEAN :
          LET dir == ensureWalletsDir(dirMode, chmodWorks)
          IN  /\ dirMode' = dir.mode
              /\ warnings' = warnings \o dir.warned
    /\ observed' = [at |-> spc, load |-> loadWallet(files, sop.id),
                    list |-> listWallets(files, readdir)]
    /\ UNCHANGED <<sop, spc, files, original, pending, decryptCalls, sresult>>
    /\ storeFrame

NextStore ==
    \/ CallLoadWallet
    \/ CallListWallets
    \/ CallManagerRead
    \/ CallImportWallet
    \/ CallChangePassword
    \/ SaveEnsureDir
    \/ SaveOpen
    \/ SaveWrite
    \/ SaveChmod
    \/ Observe

SpecStore == InitStore /\ [][NextStore]_vars

(***************************************************************************)
(* Claims about the wallet record store.                                   *)
(***************************************************************************)
\* C21: every block that loadWallet, exportWif, removeWallet or
\* changePassword hands to decryptWif has passed validateEncryptedData: a
\* block that fails the shape check is never decrypted.
C21_OnlyValidatedBlocksAreDecrypted ==
    \A k \in 1..Len(decryptCalls) : validateEncryptedData(decryptCalls[k])

\* C22: WalletManager.loadWallet fails when the address derived from the
\* decrypted secret for the network of the record is not the stored address;
\* a wallet it returns has the address of its key.
C22_LoadedAddressIsDerivedFromSecret ==
    (sop # NoValue /\ sop.name = "loadWallet" /\ spc = "done" /\ sresult.kind = "return")
    => /\ sresult.value.address.t = "str" /\ sresult.value.network.t = "str"
       /\ sresult.value.address.v
             = addressOf(sresult.value.privateKey, sresult.value.network.v)

\* the text of a file parses to an object that has every field of a record
hasAllFields(text) ==
    \E parsed \in {JSONparse(text)} :
       /\ parsed.ok /\ parsed.val.t = "obj"
       /\ \A k \in 1..Len(WalletFields) :
             getProp(parsed.val, WalletKeys[WalletFields[k]]) # Undefined

\* C23: storage.loadWallet(id) fails with the not-found error when there is
\* no file for the id, fails with an error about the record when the file
\* lacks one of version, id, name, network, address, createdAt, encrypted,
\* and returns a record only when all of them are present.
C23_LoadWalletRejectsIncompleteRecords ==
    (sop # NoValue /\ sop.name = "storage.loadWallet" /\ spc = "done")
    => /\ files[sop.id] = NoValue
             => sresult.kind = "throw" /\ sresult.error[1] = "Wallet no encontrada"
       /\ (files[sop.id] # NoValue /\ ~hasAllFields(files[sop.id].text))
             => sresult.kind = "throw" /\ sresult.error[1] = "Error al cargar wallet"
       /\ sresult.kind = "return"
             => files[sop.id] # NoValue /\ hasAllFields(files[sop.id].text)

\* the metadata of a record: its id, name, address, network and creation time
metadataOf(record) ==
    [id        |-> getProp(record, WalletKeys.id),
     name      |-> getProp(record, WalletKeys.name),
     address   |-> getProp(record, WalletKeys.address),
     network   |-> getProp(record, WalletKeys.network),
     createdAt |-> getProp(record, WalletKeys.createdAt)]

\* C24: listWallets never fails because of a file: it leaves out every file
\* that loadWallet would reject and returns the metadata, without the
\* encrypted block, of the others, the most recently created first.
C24_ListWalletsLeavesOutRejectedFiles ==
    (sop # NoValue /\ sop.name = "listWallets" /\ spc = "done")
    => /\ sresult.kind = "return"
       /\ LET listed   == sresult.value
              accepted == {id \in WalletIds : loadWallet(files, id).kind = "return"}
          IN  /\ Len(listed) = Cardinality(accepted)
              /\ \A id \in accepted :
                    \E k \in 1..Len(listed) :
                       listed[k] = metadataOf(loadWallet(files, id).value)
              /\ \A k, j \in 1..Len(listed) :
                    (k < j /\ ~dateTime(listed[k].createdAt).nan
                           /\ ~dateTime(listed[j].createdAt).nan)
                    => dateTime(listed[k].createdAt).ms >= dateTime(listed[j].createdAt).ms

\* a call of saveWallet has returned without an error
SaveSucceeded ==
    /\ sop # NoValue /\ sop.name \in {"importWallet", "changePassword"}
    /\ spc = "done" /\ sresult.kind = "return"

Warned(text) == \E k \in 1..Len(warnings) : warnings[k] = text

filesAfterSave ==
    [original EXCEPT ![savedId] = [mode |-> mode0600, text |-> walletJson(pending)]]

\* C26: replacing the file of a record is atomic: a loadWallet or listWallets
\* that runs while saveWallet writes sees the complete previous record or the
\* complete new one, never an empty or half-written file.
C26_ReadersSeeWholeRecords ==
    observed # NoValue
    => /\ \/ observed.load = loadWallet(original, sop.id)
          \/ observed.load = loadWallet(filesAfterSave, sop.id)
       /\ \/ observed.list = listWallets(original, readdir)
          \/ observed.list = listWallets(filesAfterSave, readdir)

ChangePasswordDone == sop # NoValue /\ sop.name = "changePassword" /\ spc = "done"

\* the old password given to changePassword opens the record as it was
OldPasswordOpens ==
    \E u \in {unlock(original, sop.id, sop.password)} :
       u.wallet.kind = "return" /\ u.wif.ok

\* C30: changePassword changes the encrypted block only: version, id, name,
\* network, address and createdAt are as before; after a success the record
\* decrypts under the new password to the same key and, when the passwords
\* differ, no longer under the old one; with a wrong old password or a new
\* one of fewer than 8 characters it fails and the file is left as it was.
C30_ChangePasswordReplacesOnlyTheBlock ==
    ChangePasswordDone
    => /\ sresult.kind = "return"
          => \E before \in {loadWallet(original, sop.id)}, after \in {loadWallet(files, sop.id)} :
                /\ before.kind = "return" /\ after.kind = "return"
                /\ \A k \in 1..Len(WalletFields) :
                      WalletFields[k] # "encrypted"
                      => getProp(after.value, WalletKeys[WalletFields[k]])
                            = getProp(before.value, WalletKeys[WalletFields[k]])
                /\ \E unsealed \in {decryptStored(getProp(after.value, WalletKeys.encrypted),
                                                sop.newPassword)} :
                      /\ unsealed.ok
                      /\ unsealed.value
                            = decryptStored(getProp(before.value, WalletKeys.encrypted),
                                            sop.password).value
                /\ sop.password # sop.newPassword
                      => ~decryptStored(getProp(after.value, WalletKeys.encrypted),
                                        sop.password).ok
       /\ (Len(sop.newPassword) < minPasswordLength \/ ~OldPasswordOpens)
          => sresult.kind = "throw" /\ files = original

\* a password is changed to a different one
C30_Witness ==
    /\ ChangePasswordDone /\ sresult.kind = "return"
    /\ sop.password # sop.newPassword
    /\ files[sop.id].text # original[sop.id].text

\* changePassword is refused for a wrong old password, and for a short new one
C30_WitnessRefused ==
    /\ ChangePasswordDone /\ sresult.kind = "throw" /\ files = original
    /\ original[sop.id] # NoValue /\ loadWallet(original, sop.id).kind = "return"
    /\ Len(sop.newPassword) >= minPasswordLength
    /\ ~OldPasswordOpens

(***************************************************************************)
(* The local transaction history: one log file for each wallet, read and   *)
(* rewritten as a whole by logTransaction.                                 *)
(***************************************************************************)
LogKeys == [version      |-> <<"v", "e", "r", "s", "i", "o", "n">>,
            walletId     |-> <<"w", "a", "l", "l", "e", "t", "I", "d">>,
            transactions |-> <<"t", "r", "a", "n", "s", "a", "c", "t", "i", "o", "n", "s">>,
            lastUpdated  |-> <<"l", "a", "s", "t", "U", "p", "d", "a", "t", "e", "d">>,
            txid         |-> <<"t", "x", "i", "d">>,
            type         |-> <<"t", "y", "p", "e">>,
            amount       |-> <<"a", "m", "o", "u", "n", "t">>]

\* the log loadTransactionLog gives when there is no usable file
emptyLog(walletId) ==
    JObj(<<Member(LogKeys.version, JStr(<<"1", ".", "0">>)),
           Member(LogKeys.walletId, JStr(walletId)),
           Member(LogKeys.transactions, JArr(<<>>)),
           Member(LogKeys.lastUpdated, JStr(<<"n", "o", "w">>))>>)

\* the record a handler hands to logTransaction for a transaction it sent
sentRecord(txid, walletId, amt) ==
    JObj(<<Member(LogKeys.txid, JStr(txid)),
           Member(LogKeys.walletId, JStr(walletId)),
           Member(LogKeys.type, JStr(<<"s", "e", "n", "t">>)),
           Member(LogKeys.amount, JNum(amt))>>)

\* loadTransactionLog(walletId), once the directory is ensured: the file as
\* it parses, and an empty log when the file is missing, does not parse or
\* lacks walletId or the transactions array
loadTransactionLog(file, walletId) ==
    LET check(parsed) ==
            IF ~parsed.ok \/ parsed.val.t = "null" THEN emptyLog(walletId)
            ELSE IF \/ ~truthy(getProp(parsed.val, LogKeys.walletId))
                    \/ getProp(parsed.val, LogKeys.transactions).t # "arr"
            THEN emptyLog(walletId)
            ELSE parsed.val
    IN  IF file = NoValue THEN emptyLog(walletId)
        ELSE CHOOSE result \in {check(parsed) : parsed \in {JSONparse(file.text)}} : TRUE

\* the txids of the records of a log
txidsOf(log) ==
    LET records == getProp(log, LogKeys.transactions).v
    IN  {getProp(records[k], LogKeys.txid) : k \in 1..Len(records)}

\* log.transactions.push(record)
pushRecord(log, record) ==
    setProp(log, LogKeys.transactions,
            JArr(Append(getProp(log, LogKeys.transactions).v, record)))

\* the text saveTransactionLog writes: lastUpdated is set, then
\* JSON.stringify(log, null, 2)
logJson(log) == stringifyPretty(setProp(log, LogKeys.lastUpdated, JStr(<<"n", "o", "w">>)), 0)

\* ensureTransactionsDir(): as ensureWalletsDir, for the transactions directory
ensureTransactionsDir(dir, chmodWorks) == ensureWalletsDir(dir, chmodWorks)

\* the two handlers that log a transaction of the same wallet at the same time
Callers == {1, 2}
LoggedWallet == <<"a">>
Txids == <<<<"t", "1">>, <<"t", "2">>>>

\* the texts the log file may hold before: a log without records, a log with
\* an older record, a log that has the first caller's record already, and
\* texts that are no log
LogTexts ==
    {logJson(emptyLog(LoggedWallet)),
     logJson(pushRecord(emptyLog(LoggedWallet), sentRecord(<<"t", "0">>, LoggedWallet, 7))),
     logJson(pushRecord(emptyLog(LoggedWallet), sentRecord(Txids[1], LoggedWallet, 1))),
     <<"{">>, <<"{", "}">>, <<>>}

InitLog ==
    /\ logDir \in {NoValue} \cup {[mode |-> m] : m \in DirModes}
    /\ logFile \in {NoValue} \cup {[mode |-> m, text |-> t] : m \in FileModes, t \in LogTexts}
    /\ logDir = NoValue => logFile = NoValue
    /\ lrec \in {[p \in Callers |-> sentRecord(Txids[t[p]], LoggedWallet, p)] :
                    t \in {<<1, 2>>, <<1, 1>>}}
    /\ lpc = [p \in Callers |-> "start"]
    /\ lmem = [p \in Callers |-> NoValue]
    /\ builderIdle /\ codecIdle /\ netIdle /\ flowIdle /\ vaultIdle
    /\ storeIdle /\ toolIdle

logFrame == UNCHANGED <<builderVars, codecVars, netVars, flowVars, vaultVars,
                        storeVars, toolVars>>

\* loadTransactionLog and saveTransactionLog, first await: ensureTransactionsDir()
LogEnsureDir(p) ==
    /\ lpc[p] \in {"start", "saveDir"}
    /\ \E chmodWorks \in BOOLEAN :
          logDir' = ensureTransactionsDir(logDir, chmodWorks).mode
    /\ lpc' = [lpc EXCEPT ![p] = IF lpc[p] = "start" THEN "read" ELSE "open"]
    /\ UNCHANGED <<logFile, lrec, lmem>>
    /\ logFrame

\* logTransaction from the moment the file is read to the call of
\* saveTransactionLog: a record whose txid is in the log is not added again
LogRead(p) ==
    /\ lpc[p] = "read"
    /\ \E log \in {loadTransactionLog(logFile, LoggedWallet)} :
          IF getProp(lrec[p], LogKeys.txid) \in txidsOf(log)
          THEN lpc' = [lpc EXCEPT ![p] = "done"] /\ lmem' = lmem
          ELSE /\ lmem' = [lmem EXCEPT ![p] = pushRecord(log, lrec[p])]
               /\ lpc' = [lpc EXCEPT ![p] = "saveDir"]
    /\ UNCHANGED <<logDir, logFile, lrec>>
    /\ logFrame

\* fs.writeFile opens the log file: created with mode 0600, or cut to length 0
LogOpen(p) ==
    /\ lpc[p] = "open"
    /\ logFile' = [mode |-> IF logFile = NoValue THEN mode0600 ELSE logFile.mode,
                   text |-> <<>>]
    /\ lpc' = [lpc EXCEPT ![p] = "write"]
    /\ UNCHANGED <<logDir, lrec, lmem>>
    /\ logFrame

\* fs.writeFile writes the text from the start of the file; what another
\* writer has put beyond its end stays
LogWrite(p) ==
    /\ lpc[p] = "write"
    /\ \E json \in {logJson(lmem[p])} :
          logFile' = [logFile EXCEPT !.text =
                         json \o SubSeq(logFile.text, Len(json) + 1, Len(logFile.text))]
    /\ lpc' = [lpc EXCEPT ![p] = "chmod"]
    /\ UNCHANGED <<logDir, lrec, lmem>>
    /\ logFrame

\* fs.chmod(logPath, 0o600), whose refusal is logged and not rethrown
LogChmod(p) ==
    /\ lpc[p] = "chmod"
    /\ \E chmodWorks \in BOOLEAN :
          logFile' = IF chmodWorks THEN [logFile EXCEPT !.mode = mode0600] ELSE logFile
    /\ lpc' = [lpc EXCEPT ![p] = "done"]
    /\ UNCHANGED <<logDir, lrec, lmem>>
    /\ logFrame

NextLog ==
    \E p \in Callers :
       \/ LogEnsureDir(p)
       \/ LogRead(p)
       \/ LogOpen(p)
       \/ LogWrite(p)
       \/ LogChmod(p)

SpecLog == InitLog /\ [][NextLog]_vars

\* C29: when two handlers log transactions of distinct txids for the same
\* wallet at the same time, the log holds both records once both calls of
\* logTransaction have returned.
C29_ConcurrentLogsKeepBothRecords ==
    (/\ lpc # NoValue /\ \A p \in Callers : lpc[p] = "done"
     /\ getProp(lrec[1], LogKeys.txid) # getProp(lrec[2], LogKeys.txid))
    => \A p \in Callers :
          getProp(lrec[p], LogKeys.txid)
             \in txidsOf(loadTransactionLog(logFile, LoggedWallet))

(***************************************************************************)
(* The MCP tool handlers, as far as their answer to the caller goes: each  *)
(* runs its whole body inside a try block and turns whatever is thrown     *)
(* into a response.  What the wallet manager, the network client and the   *)
(* price client do is an input of the call.                                *)
(***************************************************************************)
ToolKeys == [success   |-> <<"s", "u", "c", "c", "e", "s", "s">>,   error      |-> <<"e", "r", "r", "o", "r">>,
             walletId  |-> <<"w", "a", "l", "l", "e", "t", "I", "d">>,  password   |-> <<"p", "a", "s", "s", "w", "o", "r", "d">>,
             message   |-> <<"m", "e", "s", "s", "a", "g", "e">>,   encoding   |-> <<"e", "n", "c", "o", "d", "i", "n", "g">>,
             operation |-> <<"o", "p", "e", "r", "a", "t", "i", "o", "n">>, name       |-> <<"n", "a", "m", "e">>,
             network   |-> <<"n", "e", "t", "w", "o", "r", "k">>,   wif        |-> <<"w", "i", "f">>,
             mnemonic  |-> <<"m", "n", "e", "m", "o", "n", "i", "c">>,  currency   |-> <<"c", "u", "r", "r", "e", "n", "c", "y">>,
             amount    |-> <<"a", "m", "o", "u", "n", "t">>,    limit      |-> <<"l", "i", "m", "i", "t">>,
             payTo     |-> <<"p", "a", "y", "T", "o">>,     toAddress  |-> <<"t", "o", "A", "d", "d", "r", "e", "s", "s">>,
             includeUTXOs |-> <<"i", "n", "c", "l", "u", "d", "e", "U", "T", "X", "O", "s">>,
             address   |-> <<"a", "d", "d", "r", "e", "s", "s">>,   balance    |-> <<"b", "a", "l", "a", "n", "c", "e">>,
             utxos     |-> <<"u", "t", "x", "o", "s">>,     wallets    |-> <<"w", "a", "l", "l", "e", "t", "s">>,
             transactions |-> <<"t", "r", "a", "n", "s", "a", "c", "t", "i", "o", "n", "s">>, total |-> <<"t", "o", "t", "a", "l">>,
             prices    |-> <<"p", "r", "i", "c", "e", "s">>,    conversion |-> <<"c", "o", "n", "v", "e", "r", "s", "i", "o", "n">>,
             bsv       |-> <<"b", "s", "v">>,       signature  |-> <<"s", "i", "g", "n", "a", "t", "u", "r", "e">>,
             txid      |-> <<"t", "x", "i", "d">>,      broadcasted |-> <<"b", "r", "o", "a", "d", "c", "a", "s", "t", "e", "d">>,
             paymentPayload |-> <<"p", "a", "y", "m", "e", "n", "t", "P", "a", "y", "l", "o", "a", "d">>]

\* what a throw statement throws: an Error with its message, or a value that
\* is no Error
thrownError(message) == [isError |-> TRUE, message |-> message]
thrownValue == [isError |-> FALSE]

\* const { ... } = params: a TypeError when params is undefined or null
destructureFails(params) == params.t \in {"undefined", "null"}
destructureError ==
    thrownError(<<"C", "a", "n", "n", "o", "t", " ", "d", "e", "s", "t", "r", "u", "c", "t", "u", "r", "e", " ", "p", "r", "o", "p", "e", "r", "t", "y", " ", "o", "f", " ", "u", "n", "d", "e", "f", "i", "n", "e", "d">>)

\* what a dependency of a handler does when awaited
Resolved == [ok |-> TRUE]
Rejected(thrown) == [ok |-> FALSE, thrown |-> thrown]

\* the first step of a try block that throws, and what it throws; NoValue
\* when no step throws
firstThrown(steps) ==
    IF \E k \in 1..Len(steps) : steps[k].fails
    THEN steps[CHOOSE k \in 1..Len(steps) :
                  steps[k].fails /\ \A j \in 1..(k - 1) : ~steps[j].fails].thrown
    ELSE NoValue

throwIf(fails, message) == [fails |-> fails, thrown |-> thrownError(message)]
await(outcome) ==
    [fails |-> ~outcome.ok, thrown |-> IF outcome.ok THEN NoValue ELSE outcome.thrown]

\* a try block: its steps in order, and the response object it builds when
\* none of them throws
tryResult(params, steps, built) ==
    LET run(thrown) == IF thrown = NoValue THEN Return(built) ELSE Throw(thrown)
    IN  CHOOSE r \in {run(thrown) :
                        thrown \in {firstThrown(<<[fails |-> destructureFails(params),
                                                   thrown |-> destructureError]>>
                                                \o steps)}} : TRUE

\* a parameter with a default value: the default stands for undefined only
withDefault(val, default) == IF val.t = "undefined" THEN default ELSE val

\* value <= 0 and value > n for the values of the model: numbers, and
\* undefined, which compares false
atMostZero(val) == val.t = "num" /\ val.v <= 0
above(val, n)   == val.t = "num" /\ val.v > n

succeeded(members) == JObj(<<Member(ToolKeys.success, JBool(TRUE))>> \o members)

\* the try block of handleGetBsvPrice
getBsvPriceTry(params, deps) ==
    LET currency == withDefault(getProp(params, ToolKeys.currency), JStr(<<"u", "s", "d">>))
        amt      == getProp(params, ToolKeys.amount)
        price    == IF currency = JStr(<<"e", "u", "r">>) THEN 46 ELSE 50
    IN  tryResult(params,
           <<throwIf(currency # JStr(<<"u", "s", "d">>) /\ currency # JStr(<<"e", "u", "r">>),
                     <<"c", "u", "r", "r", "e", "n", "c", "y", " ", "d", "e", "b", "e", " ", "s", "e", "r", " ", "u", "s", "d", " ", "o", " ", "e", "u", "r">>),
             throwIf(amt.t # "undefined" /\ atMostZero(amt),
                     <<"a", "m", "o", "u", "n", "t", " ", "d", "e", "b", "e", " ", "s", "e", "r", " ", "m", "a", "y", "o", "r", " ", "q", "u", "e", " ", "0">>),
             await(deps.price)>>,
           succeeded(<<Member(ToolKeys.prices, JObj(<<Member(<<"u", "s", "d">>, JNum(50)),
                                                      Member(<<"e", "u", "r">>, JNum(46))>>)),
                       Member(ToolKeys.conversion,
                              IF amt.t = "num"
                              THEN JObj(<<Member(ToolKeys.bsv, amt),
                                          Member(currency.v, JNum(amt.v * price))>>)
                              ELSE Undefined)>>))

\* the try block of handleGetBalance
getBalanceTry(params, deps) ==
    tryResult(params,
       <<throwIf(~truthy(getProp(params, ToolKeys.walletId)), <<"S", "e", " ", "r", "e", "q", "u", "i", "e", "r", "e", " ", "w", "a", "l", "l", "e", "t", "I", "d">>),
         await(deps.wallet),
         await(deps.network)>>,
       succeeded(<<Member(ToolKeys.walletId, getProp(params, ToolKeys.walletId)),
                   Member(ToolKeys.balance, JNum(800)),
                   Member(ToolKeys.utxos,
                          IF truthy(getProp(params, ToolKeys.includeUTXOs))
                          THEN JArr(<<JObj(<<Member(ToolKeys.txid, JStr(<<"t", "0">>))>>)>>)
                          ELSE Undefined)>>))

\* the try block of handleSignMessage
signMessageTry(params, deps) ==
    LET encoding == withDefault(getProp(params, ToolKeys.encoding), JStr(<<"u", "t", "f", "8">>))
    IN  tryResult(params,
           <<throwIf(~truthy(getProp(params, ToolKeys.walletId)), <<"S", "e", " ", "r", "e", "q", "u", "i", "e", "r", "e", " ", "w", "a", "l", "l", "e", "t", "I", "d">>),
             throwIf(~truthy(getProp(params, ToolKeys.password)), <<"S", "e", " ", "r", "e", "q", "u", "i", "e", "r", "e", " ", "p", "a", "s", "s", "w", "o", "r", "d">>),
             throwIf(~truthy(getProp(params, ToolKeys.message)), <<"S", "e", " ", "r", "e", "q", "u", "i", "e", "r", "e", " ", "m", "e", "s", "s", "a", "g", "e">>),
             throwIf(encoding # JStr(<<"u", "t", "f", "8">>) /\ encoding # JStr(<<"h", "e", "x">>),
                     <<"e", "n", "c", "o", "d", "i", "n", "g", " ", "d", "e", "b", "e", " ", "s", "e", "r", " ", "u", "t", "f", "8", " ", "o", " ", "h", "e", "x">>),
             await(deps.wallet)>>,
           succeeded(<<Member(ToolKeys.signature, JStr(<<"s", "i", "g">>)),
                       Member(ToolKeys.message, getProp(params, ToolKeys.message))>>))

\* the try block of handleManageWallets
manageWalletsTry(params, deps) ==
    LET operation == getProp(params, ToolKeys.operation)
        lacks(names) == \E k \in 1..Len(names) : ~truthy(getProp(params, ToolKeys[names[k]]))
        is(name) == operation = JStr(name)
    IN  tryResult(params,
           <<throwIf(is(<<"c", "r", "e", "a", "t", "e">>) /\ lacks(<<"name", "network", "password">>),
                     <<"P", "a", "r", "a", " ", "c", "r", "e", "a", "r", " ", "u", "n", "a", " ", "w", "a", "l", "l", "e", "t", " ", "s", "e", " ", "r", "e", "q", "u", "i", "e", "r", "e", ":", " ", "n", "a", "m", "e", ",", " ", "n", "e", "t", "w", "o", "r", "k", " ", "y", " ", "p", "a", "s", "s", "w", "o", "r", "d">>),
             throwIf(is(<<"i", "m", "p", "o", "r", "t">>) /\ lacks(<<"name", "wif", "network", "password">>),
                     <<"P", "a", "r", "a", " ", "i", "m", "p", "o", "r", "t", "a", "r", " ", "u", "n", "a", " ", "w", "a", "l", "l", "e", "t", " ", "s", "e", " ", "r", "e", "q", "u", "i", "e", "r", "e", ":", " ", "n", "a", "m", "e", ",", " ", "w", "i", "f", ",", " ", "n", "e", "t", "w", "o", "r", "k", " ", "y", " ", "p", "a", "s", "s", "w", "o", "r", "d">>),
             throwIf(is(<<"i", "m", "p", "o", "r", "t", "-", "m", "n", "e", "m", "o", "n", "i", "c">>)
                        /\ lacks(<<"name", "mnemonic", "network", "password">>),
                     <<"P", "a", "r", "a", " ", "i", "m", "p", "o", "r", "t", "a", "r", " ", "u", "n", "a", " ", "w", "a", "l", "l", "e", "t", " ", "d", "e", "s", "d", "e", " ", "m", "n", "e", "m", "o", "n", "i", "c", " ", "s", "e", " ", "r", "e", "q", "u", "i", "e", "r", "e", ":", " ", "n", "a", "m", "e", ",", " ", "m", "n", "e", "m", "o", "n", "i", "c", ",", " ", "n", "e", "t", "w", "o", "r", "k", " ", "y", " ", "p", "a", "s", "s", "w", "o", "r", "d">>),
             throwIf(is(<<"e", "x", "p", "o", "r", "t">>) /\ lacks(<<"walletId", "password">>),
                     <<"P", "a", "r", "a", " ", "e", "x", "p", "o", "r", "t", "a", "r", " ", "u", "n", "a", " ", "w", "a", "l", "l", "e", "t", " ", "s", "e", " ", "r", "e", "q", "u", "i", "e", "r", "e", ":", " ", "w", "a", "l", "l", "e", "t", "I", "d", " ", "y", " ", "p", "a", "s", "s", "w", "o", "r", "d">>),
             throwIf(~is(<<"c", "r", "e", "a", "t", "e">>) /\ ~is(<<"l", "i", "s", "t">>) /\ ~is(<<"i", "m", "p", "o", "r", "t">>)
                        /\ ~is(<<"i", "m", "p", "o", "r", "t", "-", "m", "n", "e", "m", "o", "n", "i", "c">>) /\ ~is(<<"e", "x", "p", "o", "r", "t">>),
                     <<"O", "p", "e", "r", "a", "c", "i", "o", "n", " ", "d", "e", "s", "c", "o", "n", "o", "c", "i", "d", "a", ":", " ">> \o templateText(operation)),
             await(deps.wallet)>>,
           succeeded(<<Member(ToolKeys.operation, operation),
                       Member(ToolKeys.walletId,
                              IF is(<<"l", "i", "s", "t">>) THEN Undefined ELSE JStr(<<"a">>)),
                       Member(ToolKeys.wallets,
                              IF is(<<"l", "i", "s", "t">>) THEN JArr(<<>>) ELSE Undefined),
                       Member(ToolKeys.wif,
                              IF is(<<"e", "x", "p", "o", "r", "t">>) THEN JStr(<<"K">>) ELSE Undefined)>>))

\* the try block of handleListTransactions
listTransactionsTry(params, deps) ==
    LET limit == withDefault(getProp(params, ToolKeys.limit), JNum(100))
    IN  tryResult(params,
           <<throwIf(~truthy(getProp(params, ToolKeys.walletId)), <<"S", "e", " ", "r", "e", "q", "u", "i", "e", "r", "e", " ", "w", "a", "l", "l", "e", "t", "I", "d">>),
             throwIf(truthy(limit) /\ (atMostZero(limit) \/ above(limit, 1000)),
                     <<"l", "i", "m", "i", "t", " ", "d", "e", "b", "e", " ", "s", "e", "r", " ", "e", "n", "t", "r", "e", " ", "1", " ", "y", " ", "1", "0", "0", "0">>),
             await(deps.wallet),
             await(deps.network)>>,
           succeeded(<<Member(ToolKeys.walletId, getProp(params, ToolKeys.walletId)),
                       Member(ToolKeys.transactions, JArr(<<>>)),
                       Member(ToolKeys.total, JNum(0))>>))

\* the try block of handleCreateX402Payment; the wallet the manager loads is
\* a mainnet wallet
createX402PaymentTry(params, deps) ==
    LET net == withDefault(getProp(params, ToolKeys.network), JStr(<<"m", "a", "i", "n", "n", "e", "t">>))
        amt == getProp(params, ToolKeys.amount)
    IN  tryResult(params,
           <<throwIf(~truthy(getProp(params, ToolKeys.walletId)), <<"S", "e", " ", "r", "e", "q", "u", "i", "e", "r", "e", " ", "w", "a", "l", "l", "e", "t", "I", "d">>),
             throwIf(~truthy(getProp(params, ToolKeys.password)), <<"S", "e", " ", "r", "e", "q", "u", "i", "e", "r", "e", " ", "p", "a", "s", "s", "w", "o", "r", "d">>),
             throwIf(~truthy(getProp(params, ToolKeys.payTo)), <<"S", "e", " ", "r", "e", "q", "u", "i", "e", "r", "e", " ", "p", "a", "y", "T", "o">>),
             throwIf(~truthy(amt) \/ atMostZero(amt),
                     <<"S", "e", " ", "r", "e", "q", "u", "i", "e", "r", "e", " ", "a", "m", "o", "u", "n", "t", " ", "(", "d", "e", "b", "e", " ", "s", "e", "r", " ", "m", "a", "y", "o", "r", " ", "a", " ", "0", ")">>),
             throwIf(net # JStr(<<"m", "a", "i", "n", "n", "e", "t">>) /\ net # JStr(<<"t", "e", "s", "t", "n", "e", "t">>),
                     <<"n", "e", "t", "w", "o", "r", "k", " ", "d", "e", "b", "e", " ", "s", "e", "r", " ", "m", "a", "i", "n", "n", "e", "t", " ", "o", " ", "t", "e", "s", "t", "n", "e", "t">>),
             await(deps.wallet),
             throwIf(net # JStr(<<"m", "a", "i", "n", "n", "e", "t">>),
                     <<"L", "a", " ", "w", "a", "l", "l", "e", "t", " ", "e", "s", "t", "a", " ", "c", "o", "n", "f", "i", "g", "u", "r", "a", "d", "a", " ", "p", "a", "r", "a", " ", "m", "a", "i", "n", "n", "e", "t", " ", "p", "e", "r", "o", " ", "s", "e", " ", "s", "o", "l", "i", "c", "i", "t", "o", " ">>
                        \o templateText(net)),
             await(deps.network)>>,
           succeeded(<<Member(ToolKeys.paymentPayload, JStr(<<"e", "3", "0", "=">>)),
                       Member(ToolKeys.txid, JStr(<<"t", "1">>)),
                       Member(ToolKeys.amount, amt)>>))

\* the try block of handleSendTransaction
sendTransactionTry(params, deps) ==
    LET amt == getProp(params, ToolKeys.amount)
    IN  tryResult(params,
           <<throwIf(~truthy(getProp(params, ToolKeys.walletId)), <<"S", "e", " ", "r", "e", "q", "u", "i", "e", "r", "e", " ", "w", "a", "l", "l", "e", "t", "I", "d">>),
             throwIf(~truthy(getProp(params, ToolKeys.password)), <<"S", "e", " ", "r", "e", "q", "u", "i", "e", "r", "e", " ", "p", "a", "s", "s", "w", "o", "r", "d">>),
             throwIf(~truthy(getProp(params, ToolKeys.toAddress)), <<"S", "e", " ", "r", "e", "q", "u", "i", "e", "r", "e", " ", "t", "o", "A", "d", "d", "r", "e", "s", "s">>),
             throwIf(~truthy(amt) \/ atMostZero(amt),
                     <<"S", "e", " ", "r", "e", "q", "u", "i", "e", "r", "e", " ", "a", "m", "o", "u", "n", "t", " ", "(", "d", "e", "b", "e", " ", "s", "e", "r", " ", "m", "a", "y", "o", "r", " ", "a", " ", "0", ")">>),
             await(deps.wallet),
             await(deps.network)>>,
           succeeded(<<Member(ToolKeys.txid, JStr(<<"t", "1">>)),
                       Member(ToolKeys.amount, amt),
                       Member(ToolKeys.toAddress, getProp(params, ToolKeys.toAddress)),
                       Member(ToolKeys.broadcasted, JBool(TRUE))>>))

\* the value every handler returns: one content item of type text
textContent(text) == [content |-> <<[type |-> "text", text |-> text]>>]

\* error instanceof Error ? error.message : 'Error desconocido'
errorMessage(thrown) == IF thrown.isError THEN thrown.message ELSE <<"E", "r", "r", "o", "r", " ", "d", "e", "s", "c", "o", "n", "o", "c", "i", "d", "o">>

failed(message) ==
    JObj(<<Member(ToolKeys.success, JBool(FALSE)), Member(ToolKeys.error, JStr(message))>>)

\* a catch block that answers for an Error and throws anything else again
catchErrorsOnly(tried) ==
    IF tried.kind = "return" THEN Return(textContent(stringifyPretty(tried.value, 0)))
    ELSE IF tried.error.isError
    THEN Return(textContent(stringifyPretty(failed(tried.error.message), 0)))
    ELSE Throw(tried.error)

\* the end of every handler: the response of the try block as text, and for
\* whatever the try block threw a response with success false and the message
catchAll(tried) ==
    IF tried.kind = "return" THEN Return(textContent(stringifyPretty(tried.value, 0)))
    ELSE Return(textContent(stringifyPretty(failed(errorMessage(tried.error)), 0)))

(***************************************************************************)
(* Inputs of the tool calls.                                               *)
(***************************************************************************)
\* an arguments object, and the object without one of its members
argsOf(names, values) ==
    JObj([k \in 1..Len(names) |-> Member(ToolKeys[names[k]], values[k])])
withoutArg(obj, name) == JObj(SelectSeq(obj.v, LAMBDA m : m.k # ToolKeys[name]))

\* a complete object, the object without each of its members in turn, the
\* empty object, and no object at all
argCases(names, values) ==
    {argsOf(names, values), JObj(<<>>), Undefined, [t |-> "null"]}
       \cup {withoutArg(argsOf(names, values), names[k]) : k \in 1..Len(names)}

ToolNames == {"manage_wallets", "get_balance", "sign_message", "create_x402_payment",
              "send_transaction", "list_transactions", "get_bsv_price"}

ToolArgs(name) ==
    CASE name = "get_bsv_price" ->
            argCases(<<"currency", "amount">>, <<JStr(<<"e", "u", "r">>), JNum(2)>>)
               \cup {argsOf(<<"currency">>, <<JStr(<<"g", "b", "p">>)>>),
                     argsOf(<<"amount">>, <<JNum(0)>>)}
      [] name = "get_balance" ->
            argCases(<<"walletId", "includeUTXOs">>, <<JStr(<<"a">>), JBool(TRUE)>>)
               \cup {argsOf(<<"walletId">>, <<JStr(<<>>)>>)}
      [] name = "sign_message" ->
            argCases(<<"walletId", "password", "message">>,
                     <<JStr(<<"a">>), JStr(<<"p", "a", "s", "s", "w", "o", "r", "d">>), JStr(<<"h", "i">>)>>)
               \cup {argsOf(<<"walletId", "password", "message", "encoding">>,
                            <<JStr(<<"a">>), JStr(<<"p", "a", "s", "s", "w", "o", "r", "d">>), JStr(<<"h", "i">>), JStr(e)>>) :
                        e \in {<<"h", "e", "x">>, <<"b", "a", "s", "e", "6", "4">>}}
      [] name = "manage_wallets" ->
            argCases(<<"operation", "name", "network", "password">>,
                     <<JStr(<<"c", "r", "e", "a", "t", "e">>), JStr(<<"w">>), JStr(<<"m", "a", "i", "n", "n", "e", "t">>), JStr(<<"p", "a", "s", "s", "w", "o", "r", "d">>)>>)
               \cup argCases(<<"operation", "name", "wif", "network", "password">>,
                             <<JStr(<<"i", "m", "p", "o", "r", "t">>), JStr(<<"w">>), JStr(<<"K">>), JStr(<<"m", "a", "i", "n", "n", "e", "t">>),
                               JStr(<<"p", "a", "s", "s", "w", "o", "r", "d">>)>>)
               \cup argCases(<<"operation", "walletId", "password">>,
                             <<JStr(<<"e", "x", "p", "o", "r", "t">>), JStr(<<"a">>), JStr(<<"p", "a", "s", "s", "w", "o", "r", "d">>)>>)
               \cup {argsOf(<<"operation">>, <<JStr(o)>>) :
                        o \in {<<"l", "i", "s", "t">>, <<"i", "m", "p", "o", "r", "t", "-", "m", "n", "e", "m", "o", "n", "i", "c">>, <<"d", "e", "l", "e", "t", "e">>}}
               \cup {argsOf(<<"operation", "name", "mnemonic", "network", "password">>,
                            <<JStr(<<"i", "m", "p", "o", "r", "t", "-", "m", "n", "e", "m", "o", "n", "i", "c">>), JStr(<<"w">>), JStr(<<"a", "b", "a", "n", "d", "o", "n">>),
                              JStr(<<"m", "a", "i", "n", "n", "e", "t">>), JStr(<<"p", "a", "s", "s", "w", "o", "r", "d">>)>>)}
      [] name = "list_transactions" ->
            argCases(<<"walletId", "limit">>, <<JStr(<<"a">>), JNum(10)>>)
               \cup {argsOf(<<"walletId", "limit">>, <<JStr(<<"a">>), JNum(n)>>) :
                        n \in {-1, 0, 1001}}
      [] name = "create_x402_payment" ->
            argCases(<<"walletId", "password", "payTo", "amount">>,
                     <<JStr(<<"a">>), JStr(<<"p", "a", "s", "s", "w", "o", "r", "d">>), JStr(<<"1", "B">>), JNum(5)>>)
               \cup {argsOf(<<"walletId", "password", "payTo", "amount", "network">>,
                            <<JStr(<<"a">>), JStr(<<"p", "a", "s", "s", "w", "o", "r", "d">>), JStr(<<"1", "B">>), JNum(n),
                              JStr(net)>>) :
                        n \in {-1, 0, 5}, net \in {<<"t", "e", "s", "t", "n", "e", "t">>, <<"r", "e", "g", "t", "e", "s", "t">>}}
      [] name = "send_transaction" ->
            argCases(<<"walletId", "password", "toAddress", "amount">>,
                     <<JStr(<<"a">>), JStr(<<"p", "a", "s", "s", "w", "o", "r", "d">>), JStr(<<"1", "B">>), JNum(5)>>)
               \cup {argsOf(<<"walletId", "password", "toAddress", "amount">>,
                            <<JStr(<<"a">>), JStr(<<"p", "a", "s", "s", "w", "o", "r", "d">>), JStr(<<"1", "B">>), JNum(n)>>) :
                        n \in {-1, 0}}

\* what a dependency may do: resolve, reject with an Error, reject with
\* something that is no Error
Outcomes ==
    {Resolved,
     Rejected(thrownError(<<"E", "r", "r", "o", "r", " ", "a", "l", " ", "c", "a", "r", "g", "a", "r", " ", "w", "a", "l", "l", "e", "t", ":", " ", "P", "a", "s", "s", "w", "o", "r", "d", " ", "i", "n", "c", "o", "r", "r", "e", "c", "t", "o", " ", "o", " ", "d", "a", "t", "o", "s", " ", "c", "o", "r", "r", "u", "p", "t", "o", "s">>)),
     Rejected(thrownError(<<>>)),
     Rejected(thrownValue)}

InitTools ==
    /\ tcall \in {c \in [tool : ToolNames,
                         params : UNION {ToolArgs(n) : n \in ToolNames},
                         deps : [wallet : Outcomes, network : Outcomes, price : Outcomes]] :
                     /\ c.params \in ToolArgs(c.tool)
                     /\ c.tool # "get_bsv_price" => c.deps.price = Resolved
                     /\ c.tool = "get_bsv_price"
                           => c.deps.wallet = Resolved /\ c.deps.network = Resolved
                     /\ c.tool \in {"sign_message", "manage_wallets"}
                           => c.deps.network = Resolved}
    /\ tpc = "start" /\ tthrown = NoValue /\ toutcome = NoValue
    /\ builderIdle /\ codecIdle /\ netIdle /\ flowIdle /\ vaultIdle
    /\ storeIdle /\ logIdle

toolFrame == UNCHANGED <<builderVars, codecVars, netVars, flowVars, vaultVars,
                         storeVars, logVars>>

\* the end of a handler: what its try block returned is made the text of the
\* response, what it threw goes through the catch block
answer(tried) ==
    /\ tthrown' = IF tried.kind = "throw" THEN tried.error ELSE NoValue
    /\ toutcome' = catchAll(tried)
    /\ tpc' = "done"
    /\ UNCHANGED tcall

handleManageWallets ==
    /\ tpc = "start" /\ tcall.tool = "manage_wallets"
    /\ \E tried \in {manageWalletsTry(tcall.params, tcall.deps)} : answer(tried)
    /\ toolFrame

handleGetBalance ==
    /\ tpc = "start" /\ tcall.tool = "get_balance"
    /\ \E tried \in {getBalanceTry(tcall.params, tcall.deps)} : answer(tried)
    /\ toolFrame

handleSignMessage ==
    /\ tpc = "start" /\ tcall.tool = "sign_message"
    /\ \E tried \in {signMessageTry(tcall.params, tcall.deps)} : answer(tried)
    /\ toolFrame

handleCreateX402Payment ==
    /\ tpc = "start" /\ tcall.tool = "create_x402_payment"
    /\ \E tried \in {createX402PaymentTry(tcall.params, tcall.deps)} : answer(tried)
    /\ toolFrame

handleSendTransaction ==
    /\ tpc = "start" /\ tcall.tool = "send_transaction"
    /\ \E tried \in {sendTransactionTry(tcall.params, tcall.deps)} : answer(tried)
    /\ toolFrame

handleListTransactions ==
    /\ tpc = "start" /\ tcall.tool = "list_transactions"
    /\ \E tried \in {listTransactionsTry(tcall.params, tcall.deps)} : answer(tried)
    /\ toolFrame

handleGetBsvPrice ==
    /\ tpc = "start" /\ tcall.tool = "get_bsv_price"
    /\ \E tried \in {getBsvPriceTry(tcall.params, tcall.deps)} : answer(tried)
    /\ toolFrame

NextTools ==
    \/ handleManageWallets
    \/ handleGetBalance
    \/ handleSignMessage
    \/ handleCreateX402Payment
    \/ handleSendTransaction
    \/ handleListTransactions
    \/ handleGetBsvPrice

SpecTools == InitTools /\ [][NextTools]_vars

\* the text of the response parses to an object whose success member is a
\* boolean
ParsedResponse == JSONparse(toutcome.value.content[1].text)

\* C27: every tool handler, for any arguments, the empty object among them,
\* returns a response whose text parses to an object with a success flag;
\* when anything failed inside the handler the flag is false and the object
\* carries an error message; the handler never throws.
C27_HandlersAlwaysAnswer ==
    tpc = "done"
    => /\ toutcome.kind = "return"
       /\ \E parsed \in {ParsedResponse} :
             /\ parsed.ok /\ parsed.val.t = "obj"
             /\ getProp(parsed.val, ToolKeys.success).t = "bool"
             /\ (tthrown # NoValue \/ ~getProp(parsed.val, ToolKeys.success).v)
                => /\ getProp(parsed.val, ToolKeys.success) = JBool(FALSE)
                   /\ getProp(parsed.val, ToolKeys.error).t = "str"
             /\ tthrown = NoValue => getProp(parsed.val, ToolKeys.success) = JBool(TRUE)

\* a handler is called with the empty object and answers with a failure
C27_Witness ==
    /\ tpc = "done" /\ tcall.params = JObj(<<>>) /\ tcall.tool = "manage_wallets"
    /\ tthrown # NoValue /\ toutcome.kind = "return"
    /\ getProp(ParsedResponse.val, ToolKeys.success) = JBool(FALSE)

\* a dependency rejects with something that is no Error
C27_WitnessUnknownError ==
    /\ tpc = "done" /\ tthrown = thrownValue /\ toutcome.kind = "return"
    /\ getProp(ParsedResponse.val, ToolKeys.error) = JStr(<<"E", "r", "r", "o", "r", " ", "d", "e", "s", "c", "o", "n", "o", "c", "i", "d", "o">>)

====
